---------------------------- MODULE Spec2Model ----------------------------
(***************************************************************************)
(* A model of desiutil.brick (src/py/desiutil/brick.py): the Bricks grid    *)
(* built by Bricks.__init__, the lookups built on _row_col, to_table, and   *)
(* the module-level brickname() with its cached _bricks.                    *)
(*                                                                         *)
(* Declinations and the bricksize are integers counted in ticks of          *)
(* 1/TicksPerDeg degree: every row centre and edge and bricksize/2 is then  *)
(* a double the code computes without rounding.  Right ascensions (inputs,  *)
(* edges, centres) are IEEE doubles [s, m, e], and the operations the code  *)
(* applies to them (%, /, *, +, -, astype(int), "{:.0f}".format) round as   *)
(* the hardware does.  np.cos and np.degrees(np.sin(np.radians(.))) are     *)
(* tables of the library's values at every tick from 0 to 90 degrees.       *)
(* Arrays and rows are indexed as in the source: _ncol_per_row and the      *)
(* other per-row tables from 0, numpy arrays of inputs and results as       *)
(* sequences.                                                               *)
(***************************************************************************)
EXTENDS Integers, Sequences, FiniteSets, TLC

(***************************************************************************)
(* Units and arithmetic helpers.                                            *)
(***************************************************************************)
TicksPerDeg == 2^5

DegFull == 360
DegPole == 90
NameScale == 10000

\* Python values carry their type: None, a scalar, an array, a tuple, a raised
\* exception, a Bricks object, a table
None == [type |-> "None"]
Scalar(v) == [type |-> "scalar", v |-> v]
Array(v) == [type |-> "array", v |-> v]
Raise(e) == [type |-> "raise", error |-> e]
Tuple2(a, b) == [type |-> "tuple", v |-> <<a, b>>]

\* np.isscalar(x)
IsScalar(x) == x.type = "scalar"

\* np.atleast_1d(x), as a sequence
AtLeast1d(x) == IF IsScalar(x) THEN <<x.v>> ELSE x.v

\* seq[i] of Python and numpy: a negative i counts from the end
PyInRange(i, n) == -n <= i /\ i < n
PyIndex(i, n) == IF i < 0 THEN i + n ELSE i

Abs(x) == IF x < 0 THEN -x ELSE x

\* ceil(a / b) for b > 0
CeilDiv(a, b) == -((-a) \div b)

\* rounding a / b down instead
TruncDiv_Floor(a, b) == a \div b
\* numpy's astype(int): truncation toward zero of a / b, b > 0
TruncDiv(a, b) == IF a >= 0 THEN a \div b ELSE -((-a) \div b)

\* Python's "{:.0f}".format of q + r/den (0 <= r < den): round half to even
RoundRem(q, r, den) ==
    IF 2 * r > den THEN q + 1
    ELSE IF 2 * r < den THEN q
    ELSE IF q % 2 = 0 THEN q ELSE q + 1

RoundHalfEven(num, den) == RoundRem(num \div den, num % den, den)

(***************************************************************************)
(* Natural numbers beyond 32 bits: sequences of limbs, lowest first, each   *)
(* below LimbBase, without leading zero limbs.                              *)
(***************************************************************************)
LimbBits == 14
LimbBase == 2^LimbBits

Limb(n, i) == IF i \in DOMAIN n THEN n[i] ELSE 0

RECURSIVE BigTrim(_)
BigTrim(n) ==
    IF n = <<>> THEN n
    ELSE IF n[Len(n)] = 0 THEN BigTrim(SubSeq(n, 1, Len(n) - 1)) ELSE n

\* a natural number below 2^31 as limbs, and back
BigFromInt(v) ==
    BigTrim(<<v % LimbBase, (v \div LimbBase) % LimbBase, v \div (LimbBase * LimbBase)>>)
BigToInt(n) == Limb(n, 1) + Limb(n, 2) * LimbBase + Limb(n, 3) * LimbBase * LimbBase

RECURSIVE MulCarry(_, _, _, _)
MulCarry(n, k, i, carry) ==
    IF i > Len(n) THEN BigFromInt(carry)
    ELSE LET t == n[i] * k + carry
         IN  <<t % LimbBase>> \o MulCarry(n, k, i + 1, t \div LimbBase)

\* n * k for 0 <= k <= LimbBase
BigMulSmall(n, k) == BigTrim(MulCarry(n, k, 1, 0))

RECURSIVE DivRem(_, _, _)
\* the remainder of the limbs i.. of n by k, 0 < k < LimbBase
DivRem(n, k, i) ==
    IF i > Len(n) THEN 0 ELSE (DivRem(n, k, i + 1) * LimbBase + n[i]) % k

\* n \div k and n % k
BigDivSmall(n, k) ==
    [q |-> BigTrim([i \in DOMAIN n |->
                      (DivRem(n, k, i + 1) * LimbBase + n[i]) \div k]),
     r |-> DivRem(n, k, 1)]

RECURSIVE AddCarry(_, _, _, _)
AddCarry(a, b, i, carry) ==
    IF i > Len(a) /\ i > Len(b) THEN BigFromInt(carry)
    ELSE LET t == Limb(a, i) + Limb(b, i) + carry
         IN  <<t % LimbBase>> \o AddCarry(a, b, i + 1, t \div LimbBase)

BigAdd(a, b) == BigTrim(AddCarry(a, b, 1, 0))

RECURSIVE SubBorrow(_, _, _, _)
SubBorrow(a, b, i, borrow) ==
    IF i > Len(a) THEN <<>>
    ELSE LET t == a[i] - Limb(b, i) - borrow
         IN  <<t % LimbBase>> \o SubBorrow(a, b, i + 1, IF t < 0 THEN 1 ELSE 0)

\* a - b for a >= b
BigSub(a, b) == BigTrim(SubBorrow(a, b, 1, 0))

RECURSIVE CmpFrom(_, _, _)
CmpFrom(a, b, i) ==
    IF i = 0 THEN 0
    ELSE IF a[i] < b[i] THEN -1
    ELSE IF a[i] > b[i] THEN 1
    ELSE CmpFrom(a, b, i - 1)

\* -1, 0, 1 as a < b, a = b, a > b
BigCmp(a, b) ==
    IF Len(a) < Len(b) THEN -1
    ELSE IF Len(a) > Len(b) THEN 1
    ELSE CmpFrom(a, b, Len(a))

RECURSIVE BigMul(_, _)
BigMul(a, b) ==
    IF b = <<>> THEN <<>>
    ELSE BigAdd(BigMulSmall(a, b[1]), BigTrim(<<0>> \o BigMul(a, Tail(b))))

\* the number of bits of n
BitLen(n) ==
    IF n = <<>> THEN 0
    ELSE LimbBits * (Len(n) - 1)
         + (CHOOSE k \in 1..LimbBits : 2^(k - 1) <= n[Len(n)] /\ n[Len(n)] < 2^k)

\* the bits pos .. pos+LimbBits-1 of n as one limb (bits below 0 are 0)
BigBits(n, pos) ==
    LET a == pos \div LimbBits
        b == pos % LimbBits
    IN  Limb(n, a + 1) \div 2^b + (Limb(n, a + 2) % 2^b) * 2^(LimbBits - b)

\* n \div 2^d for d >= 0, n * 2^(-d) for d < 0
BigShift(n, d) ==
    LET len == BitLen(n) - d
    IN  IF len <= 0 THEN <<>>
        ELSE BigTrim([k \in 1..((len + LimbBits - 1) \div LimbBits) |->
                         BigBits(n, d + LimbBits * (k - 1))])

\* whether n has a 1 among its bits below d
BigLowBits(n, d) ==
    \E i \in DOMAIN n :
        /\ n[i] # 0
        /\ LimbBits * (i - 1) < d
        /\ IF LimbBits * i <= d THEN TRUE ELSE n[i] % 2^(d - LimbBits * (i - 1)) # 0

(***************************************************************************)
(* IEEE doubles, the float64 of Python and numpy: [s, m, e] is              *)
(* (-1)^s * m * 2^e with a mantissa m of MantBits bits (as limbs); 0.0 has  *)
(* the empty mantissa.  A float32 is a double whose mantissa ends in        *)
(* MantBits - F32Bits zeros.                                                *)
(***************************************************************************)
MantBits == 53
F32Bits == 24
F64Zero == [s |-> 0, m |-> <<>>, e |-> 0]

\* the shift that brings a rounded mantissa r of 'bits' bits, or of one more
\* after a carry, to MantBits bits
RoundNorm(bits, r) ==
    IF BitLen(r) > bits THEN bits + 1 - MantBits ELSE bits - MantBits

\* the double (-1)^s * r * 2^e of a rounded mantissa r
RoundPack(bits, s, e, r) ==
    [s |-> s, m |-> BigShift(r, RoundNorm(bits, r)), e |-> e + RoundNorm(bits, r)]

\* the kept bits q rounded half to even: half is the first bit cut, rest
\* whether anything lies below it
RoundPick(bits, s, e, q, half, rest) ==
    RoundPack(bits, s, e,
              IF half THEN (IF rest THEN BigAdd(q, <<1>>)
                            ELSE IF Limb(q, 1) % 2 = 1 THEN BigAdd(q, <<1>>) ELSE q)
              ELSE q)

\* n cut by its d lowest bits
RoundCut(bits, s, n, e, sticky, d) ==
    RoundPick(bits, s, e + d, BigShift(n, d),
              IF d > 0 THEN BigBits(n, d - 1) % 2 = 1 ELSE FALSE,
              IF sticky THEN TRUE ELSE BigLowBits(n, d - 1))

\* n * 2^e rounded to 'bits' bits, half to even; sticky tells that the exact
\* value is above n * 2^e by less than 2^e
RoundTo(bits, s, n, e, sticky) ==
    IF n = <<>> THEN F64Zero ELSE RoundCut(bits, s, n, e, sticky, BitLen(n) - bits)

F64Round(s, n, e, sticky) == RoundTo(MantBits, s, n, e, sticky)

\* float(v) of an integer v
F64(v) == F64Round(IF v < 0 THEN 1 ELSE 0, BigFromInt(IF v < 0 THEN -v ELSE v), 0, FALSE)

F64Neg(x) == IF x.m = <<>> THEN x ELSE [x EXCEPT !.s = 1 - x.s]
\* |x| with the sign s
WithSign(x, s) == IF x.m = <<>> THEN x ELSE [x EXCEPT !.s = s]
F64Abs(x) == [x EXCEPT !.s = 0]

\* x * 2^k
F64Scale(x, k) == IF x.m = <<>> THEN x ELSE [x EXCEPT !.e = x.e + k]

\* x * k and x / k in double arithmetic, for an integer 0 <= k < LimbBase
F64MulInt(x, k) == F64Round(x.s, BigMulSmall(x.m, k), x.e, FALSE)
DivRound(s, d, e) == F64Round(s, d.q, e, d.r # 0)
F64DivInt(x, k) ==
    DivRound(x.s, BigDivSmall(BigShift(x.m, -2 * LimbBits), k), x.e - 2 * LimbBits)

\* x * y in double arithmetic
F64Mul(x, y) ==
    F64Round((x.s + y.s) % 2, BigMul(x.m, y.m), x.e + y.e, FALSE)

\* the sum of (-1)^sx * a * 2^e and (-1)^sy * b * 2^e, rounded
AddAligned(sx, sy, a, b, e) ==
    F64Round(IF sx = sy THEN sx ELSE IF BigCmp(a, b) >= 0 THEN sx ELSE sy,
             IF sx = sy THEN BigAdd(a, b)
             ELSE IF BigCmp(a, b) >= 0 THEN BigSub(a, b) ELSE BigSub(b, a),
             e, FALSE)

\* x + y in double arithmetic: the exact sum on the smaller exponent, rounded
F64Add(x, y) ==
    IF x.m = <<>> THEN y
    ELSE IF y.m = <<>> THEN x
    ELSE AddAligned(x.s, y.s,
                    BigShift(x.m, (IF x.e < y.e THEN x.e ELSE y.e) - x.e),
                    BigShift(y.m, (IF x.e < y.e THEN x.e ELSE y.e) - y.e),
                    IF x.e < y.e THEN x.e ELSE y.e)
F64Sub(x, y) == F64Add(x, F64Neg(y))

\* the integer part of |x|, as limbs
F64Floor(x) == IF x.m = <<>> THEN <<>> ELSE BigShift(x.m, -x.e)

\* astype(int) and int(): truncation toward zero (|x| < 2^31)
F64Trunc(x) ==
    LET v == BigToInt(F64Floor(x))
    IN  IF x.s = 1 THEN -v ELSE v

\* the integer "{:.0f}".format(x) prints: x rounded, half to even (|x| < 2^31)
F64RoundInt(x) ==
    LET v == BigToInt(F64Floor(x))
        half == x.e < 0 /\ BigBits(x.m, -x.e - 1) % 2 = 1
        rest == BigLowBits(x.m, -x.e - 1)
        r == IF half /\ (rest \/ v % 2 = 1) THEN v + 1 ELSE v
    IN  IF x.m = <<>> THEN 0
        ELSE IF x.s = 1 THEN -r ELSE r

\* |x| - k * floor(|x| / k), d being the quotient and remainder of floor(|x|)
\* by k: the remainder itself for an integer x (e >= 0, any magnitude), and
\* otherwise (|x| < 2^53) an exact difference of doubles
FmodOf(x, k, d) ==
    IF x.e >= 0 THEN F64(d.r)
    ELSE F64Sub(F64Abs(x), F64Round(0, BigMulSmall(d.q, k), 0, FALSE))

\* math.fmod(x, k) for an integer 0 < k < LimbBase: exact, with the sign of x
F64Fmod(x, k) ==
    IF x.m = <<>> THEN x
    ELSE WithSign(FmodOf(x, k, BigDivSmall(F64Floor(x), k)), x.s)

\* the remainder r of fmod brought to the sign of k > 0
ModWrap(r, k) ==
    IF r.m = <<>> THEN F64Zero
    ELSE IF r.s = 1 THEN F64Add(r, F64(k)) ELSE r

\* numpy's x % k on doubles (npy_divmod): fmod, then + k when the signs differ
F64Mod(x, k) == ModWrap(F64Fmod(x, k), k)

\* the double next below x > 0
F64Pred(x) ==
    LET m == BigSub(x.m, <<1>>)
    IN  IF BitLen(m) < MantBits
        THEN [x EXCEPT !.m = BigAdd(BigShift(m, -1), <<1>>), !.e = x.e - 1]
        ELSE [x EXCEPT !.m = m]

\* the float32 nearest to x: storing a double in an array of dtype '<f4'
F32(x) == RoundTo(F32Bits, x.s, x.m, x.e, FALSE)

(***************************************************************************)
(* Bricks.__init__: the grid as functions of bricksize (in ticks).          *)
(***************************************************************************)
\* len(np.arange(-90.0, +90.0+bricksize/2, bricksize))
NRow(bricksize) ==
    CeilDiv(2 * DegPole * TicksPerDeg + bricksize \div 2, bricksize)

\* center_dec[i]
CenterDec(bricksize, i) == -DegPole * TicksPerDeg + i * bricksize

\* edges_dec[i], i in 0..nrow, with edges_dec[0] = -90 and edges_dec[-1] = 90
EdgesDec(bricksize, i) ==
    IF i = 0 THEN -DegPole * TicksPerDeg
    ELSE IF i = NRow(bricksize) THEN DegPole * TicksPerDeg
    ELSE -DegPole * TicksPerDeg - bricksize \div 2 + i * bricksize

\* a table entry <<the four limbs of a mantissa, the exponent>> as a double
F64Entry(t) ==
    IF t[4] = 0 THEN F64Zero ELSE [s |-> 0, m |-> <<t[1], t[2], t[3], t[4]>>, e |-> t[5]]

\* np.cos(d*np.pi/180), the double the library returns, for d = t/TicksPerDeg
\* and t = 0 .. 90 degrees of ticks, one arm for each degree
CosTable(t) ==
    LET d == t \div TicksPerDeg
        k == (t % TicksPerDeg) + 1
    IN  CASE d = 0 ->
               <<<<0, 0, 0, 1024, -52>>, <<14517, 149, 16379, 2047, -53>>, <<9314, 599, 16364, 2047, -53>>,
                 <<1971, 1349, 16339, 2047, -53>>, <<10865, 2398, 16304, 2047, -53>>, <<6017, 3748, 16259, 2047, -53>>,
                 <<7399, 5398, 16204, 2047, -53>>, <<3009, 7349, 16139, 2047, -53>>, <<14414, 9600, 16064, 2047, -53>>,
                 <<14823, 12153, 15979, 2047, -53>>, <<11011, 15008, 15884, 2047, -53>>, <<10550, 1781, 15780, 2047, -53>>,
                 <<5427, 5241, 15665, 2047, -53>>, <<4806, 9004, 15540, 2047, -53>>, <<2268, 13071, 15405, 2047, -53>>,
                 <<8572, 1058, 15261, 2047, -53>>, <<2509, 5735, 15106, 2047, -53>>, <<12816, 10717, 14941, 2047, -53>>,
                 <<3494, 16007, 14766, 2047, -53>>, <<4875, 5220, 14582, 2047, -53>>, <<15320, 11125, 14387, 2047, -53>>,
                 <<1221, 957, 14183, 2047, -53>>, <<11684, 7482, 13968, 2047, -53>>, <<14696, 14319, 13743, 2047, -53>>,
                 <<11804, 5085, 13509, 2047, -53>>, <<5357, 12549, 13264, 2047, -53>>, <<14882, 3943, 13010, 2047, -53>>,
                 <<11551, 12038, 12745, 2047, -53>>, <<103, 4067, 12471, 2047, -53>>, <<2457, 12798, 12186, 2047, -53>>,
                 <<8559, 5465, 11892, 2047, -53>>, <<9155, 14838, 11587, 2047, -53>>>>[k]
          [] d = 1 ->
               <<<<12170, 8150, 11273, 2047, -53>>, <<9943, 1787, 10949, 2047, -53>>, <<11993, 12134, 10614, 2047, -53>>,
                 <<12254, 6425, 10270, 2047, -53>>, <<5454, 1046, 9916, 2047, -53>>, <<3505, 12382, 9551, 2047, -53>>,
                 <<2728, 7667, 9177, 2047, -53>>, <<245, 3287, 8793, 2047, -53>>, <<10357, 15627, 8398, 2047, -53>>,
                 <<15393, 11922, 7994, 2047, -53>>, <<14865, 8558, 7580, 2047, -53>>, <<9080, 5537, 7156, 2047, -53>>,
                 <<15528, 2860, 6722, 2047, -53>>, <<3341, 531, 6278, 2047, -53>>, <<7986, 14934, 5823, 2047, -53>>,
                 <<190, 13305, 5359, 2047, -53>>, <<629, 12029, 4885, 2047, -53>>, <<14393, 11108, 4401, 2047, -53>>,
                 <<14598, 10546, 3907, 2047, -53>>, <<7927, 10345, 3403, 2047, -53>>, <<1859, 10507, 2889, 2047, -53>>,
                 <<4671, 11034, 2365, 2047, -53>>, <<9050, 11929, 1831, 2047, -53>>, <<8484, 13195, 1287, 2047, -53>>,
                 <<13636, 14834, 733, 2047, -53>>, <<3204, 466, 170, 2047, -53>>, <<5830, 2860, 15980, 2046, -53>>,
                 <<1802, 5636, 15396, 2046, -53>>, <<4974, 8796, 14802, 2046, -53>>, <<13611, 12343, 14198, 2046, -53>>,
                 <<10391, 16281, 13584, 2046, -53>>, <<11558, 4228, 12961, 2046, -53>>>>[k]
          [] d = 2 ->
               <<<<1383, 8956, 12327, 2046, -53>>, <<14086, 14082, 11683, 2046, -53>>, <<2764, 3228, 11030, 2046, -53>>,
                 <<3230, 9163, 10366, 2046, -53>>, <<2942, 15507, 9692, 2046, -53>>, <<6538, 5879, 9009, 2046, -53>>,
                 <<3070, 13051, 8315, 2046, -53>>, <<15153, 4257, 7612, 2046, -53>>, <<663, 12271, 6898, 2046, -53>>,
                 <<193, 4326, 6175, 2046, -53>>, <<5978, 13194, 5441, 2046, -53>>, <<11053, 6111, 4698, 2046, -53>>,
                 <<9247, 15849, 3944, 2046, -53>>, <<11571, 9643, 3181, 2046, -53>>, <<13447, 3881, 2408, 2046, -53>>,
                 <<11094, 14951, 1624, 2046, -53>>, <<1527, 10089, 831, 2046, -53>>, <<15326, 5681, 28, 2046, -53>>,
                 <<1947, 1734, 15599, 2045, -53>>, <<9945, 14633, 14775, 2045, -53>>, <<6755, 11616, 13942, 2045, -53>>,
                 <<9756, 9070, 13099, 2045, -53>>, <<4357, 7000, 12246, 2045, -53>>, <<9532, 5409, 11383, 2045, -53>>,
                 <<12282, 4302, 10510, 2045, -53>>, <<405, 3684, 9627, 2045, -53>>, <<11646, 3557, 8734, 2045, -53>>,
                 <<2627, 3928, 7831, 2045, -53>>, <<12687, 4799, 6918, 2045, -53>>, <<39, 6177, 5995, 2045, -53>>,
                 <<5614, 8064, 5062, 2045, -53>>, <<5602, 10466, 4119, 2045, -53>>>>[k]
          [] d = 3 ->
               <<<<9757, 13387, 3166, 2045, -53>>, <<12246, 448, 2204, 2045, -53>>, <<8030, 4422, 1231, 2045, -53>>,
                 <<9252, 8929, 248, 2045, -53>>, <<12466, 13974, 15639, 2044, -53>>, <<15022, 3178, 14637, 2044, -53>>,
                 <<15067, 9314, 13624, 2044, -53>>, <<11541, 16003, 12601, 2044, -53>>, <<4182, 6866, 11569, 2044, -53>>,
                 <<9909, 14675, 10526, 2044, -53>>, <<13666, 6668, 9474, 2044, -53>>, <<1194, 15619, 8411, 2044, -53>>,
                 <<8183, 8763, 7339, 2044, -53>>, <<5580, 2491, 6257, 2044, -53>>, <<14281, 13191, 5164, 2044, -53>>,
                 <<6828, 8102, 4062, 2044, -53>>, <<5706, 3612, 2950, 2044, -53>>, <<1432, 16111, 1827, 2044, -53>>,
                 <<1700, 12836, 695, 2044, -53>>, <<15000, 10176, 15937, 2043, -53>>, <<1467, 8139, 14785, 2043, -53>>,
                 <<3948, 6728, 13623, 2043, -53>>, <<554, 5950, 12451, 2043, -53>>, <<2956, 5810, 11269, 2043, -53>>,
                 <<7238, 6314, 10077, 2043, -53>>, <<10280, 7468, 8875, 2043, -53>>, <<9754, 9278, 7663, 2043, -53>>,
                 <<4133, 11750, 6441, 2043, -53>>, <<9063, 14889, 5209, 2043, -53>>, <<8223, 2318, 3968, 2043, -53>>,
                 <<2467, 6811, 2716, 2043, -53>>, <<9830, 11989, 1454, 2043, -53>>>>[k]
          [] d = 4 ->
               <<<<16374, 1475, 183, 2043, -53>>, <<8957, 8044, 15285, 2042, -53>>, <<7999, 15317, 13993, 2042, -53>>,
                 <<1947, 6917, 12692, 2042, -53>>, <<12812, 15617, 11380, 2042, -53>>, <<14247, 8657, 10059, 2042, -53>>,
                 <<13470, 2427, 8728, 2042, -53>>, <<2106, 13318, 7386, 2042, -53>>, <<5348, 8567, 6035, 2042, -53>>,
                 <<27, 4566, 4674, 2042, -53>>, <<12926, 1320, 3303, 2042, -53>>, <<6082, 15222, 1921, 2042, -53>>,
                 <<7866, 13509, 530, 2042, -53>>, <<14675, 12572, 15513, 2041, -53>>, <<7315, 12419, 14102, 2041, -53>>,
                 <<157, 13056, 12681, 2041, -53>>, <<8367, 14489, 11250, 2041, -53>>, <<15135, 342, 9810, 2041, -53>>,
                 <<4448, 3391, 8359, 2041, -53>>, <<10239, 7257, 6898, 2041, -53>>, <<1699, 11949, 5427, 2041, -53>>,
                 <<14349, 1088, 3947, 2041, -53>>, <<2586, 7452, 2456, 2041, -53>>, <<3521, 14662, 955, 2041, -53>>,
                 <<5907, 6342, 15829, 2040, -53>>, <<15675, 15267, 14308, 2040, -53>>, <<6783, 8678, 12778, 2040, -53>>,
                 <<3136, 2965, 11238, 2040, -53>>, <<13048, 14519, 9687, 2040, -53>>, <<12860, 10581, 8127, 2040, -53>>,
                 <<12473, 7542, 6557, 2040, -53>>, <<6202, 5410, 4977, 2040, -53>>>>[k]
          [] d = 5 ->
               <<<<5538, 4192, 3387, 2040, -53>>, <<6381, 3896, 1787, 2040, -53>>, <<5427, 4530, 177, 2040, -53>>,
                 <<166, 6102, 14941, 2039, -53>>, <<5264, 8619, 13311, 2039, -53>>, <<3414, 12090, 11671, 2039, -53>>,
                 <<10872, 138, 10022, 2039, -53>>, <<11919, 5540, 8362, 2039, -53>>, <<8013, 11920, 6692, 2039, -53>>,
                 <<1406, 2902, 5013, 2039, -53>>, <<11529, 11261, 3323, 2039, -53>>, <<9454, 4239, 1624, 2039, -53>>,
                 <<16198, 14611, 16298, 2038, -53>>, <<4421, 9619, 14579, 2038, -53>>, <<13110, 5653, 12850, 2038, -53>>,
                 <<129, 2724, 11111, 2038, -53>>, <<6054, 838, 9362, 2038, -53>>, <<6716, 5, 7603, 2038, -53>>,
                 <<11511, 233, 5834, 2038, -53>>, <<14243, 1531, 4055, 2038, -53>>, <<9510, 3908, 2266, 2038, -53>>,
                 <<9085, 7372, 467, 2038, -53>>, <<9152, 11932, 15042, 2037, -53>>, <<6689, 1213, 13224, 2037, -53>>,
                 <<15849, 7991, 11395, 2037, -53>>, <<2428, 15893, 9556, 2037, -53>>, <<14934, 8541, 7708, 2037, -53>>,
                 <<4365, 2331, 5850, 2037, -53>>, <<4431, 13654, 3981, 2037, -53>>, <<482, 9752, 2103, 2037, -53>>,
                 <<11432, 7017, 215, 2037, -53>>, <<7833, 5460, 14701, 2036, -53>>>>[k]
          [] d = 6 ->
               <<<<10182, 5089, 12793, 2036, -53>>, <<7004, 5914, 10875, 2036, -53>>, <<3995, 7944, 8947, 2036, -53>>,
                 <<7650, 11188, 7009, 2036, -53>>, <<8867, 15656, 5061, 2036, -53>>, <<15725, 4973, 3104, 2036, -53>>,
                 <<4324, 11918, 1136, 2036, -53>>, <<711, 3731, 15543, 2035, -53>>, <<15341, 13189, 13555, 2035, -53>>,
                 <<10308, 7536, 11558, 2035, -53>>, <<14035, 3164, 9551, 2035, -53>>, <<6587, 84, 7534, 2035, -53>>,
                 <<1586, 14689, 5506, 2035, -53>>, <<13449, 14220, 3469, 2035, -53>>, <<8232, 15073, 1422, 2035, -53>>,
                 <<1936, 873, 15750, 2034, -53>>, <<11351, 4397, 13683, 2034, -53>>, <<4912, 9273, 11606, 2034, -53>>,
                 <<993, 15510, 9519, 2034, -53>>, <<2380, 6734, 7423, 2034, -53>>, <<12647, 15723, 5316, 2034, -53>>,
                 <<3396, 9721, 3200, 2034, -53>>, <<12552, 5120, 1074, 2034, -53>>, <<13300, 1932, 15322, 2033, -53>>,
                 <<12383, 167, 13176, 2033, -53>>, <<951, 16220, 11019, 2033, -53>>, <<3713, 948, 8854, 2033, -53>>,
                 <<13404, 3514, 6678, 2033, -53>>, <<7165, 7546, 4492, 2033, -53>>, <<12079, 13053, 2296, 2033, -53>>,
                 <<6871, 3663, 91, 2033, -53>>, <<3824, 12154, 14259, 2032, -53>>>>[k]
          [] d = 7 ->
               <<<<16011, 5768, 12034, 2032, -53>>, <<8147, 902, 9799, 2032, -53>>, <<11272, 13949, 7553, 2032, -53>>,
                 <<8065, 12153, 5298, 2032, -53>>, <<14766, 11908, 3033, 2032, -53>>, <<15635, 13226, 758, 2032, -53>>,
                 <<12110, 16118, 14857, 2031, -53>>, <<6417, 4211, 12563, 2031, -53>>, <<1576, 10284, 10258, 2031, -53>>,
                 <<1395, 1580, 7944, 2031, -53>>, <<10474, 10878, 5619, 2031, -53>>, <<1435, 5423, 3285, 2031, -53>>,
                 <<13227, 1608, 941, 2031, -53>>, <<3670, 15831, 14970, 2030, -53>>, <<13294, 15333, 12606, 2030, -53>>,
                 <<1499, 128, 10233, 2030, -53>>, <<10395, 2993, 7849, 2030, -53>>, <<965, 7558, 5455, 2030, -53>>,
                 <<514, 13833, 3051, 2030, -53>>, <<4374, 5446, 638, 2030, -53>>, <<8663, 15177, 14598, 2029, -53>>,
                 <<10291, 10270, 12165, 2029, -53>>, <<6958, 7121, 9722, 2029, -53>>, <<13538, 5741, 7269, 2029, -53>>,
                 <<12926, 6143, 4806, 2029, -53>>, <<5193, 8339, 2333, 2029, -53>>, <<7580, 12340, 16234, 2028, -53>>,
                 <<5354, 1775, 13742, 2028, -53>>, <<953, 9424, 11239, 2028, -53>>, <<13989, 2530, 8727, 2028, -53>>,
                 <<15713, 13875, 6204, 2028, -53>>, <<10932, 10703, 3672, 2028, -53>>>>[k]
          [] d = 8 ->
               <<<<5242, 9410, 1130, 2028, -53>>, <<5029, 10008, 14962, 2027, -53>>, <<1087, 12510, 12400, 2027, -53>>,
                 <<1378, 544, 9829, 2027, -53>>, <<14657, 6890, 7247, 2027, -53>>, <<1316, 15179, 4655, 2027, -53>>,
                 <<4454, 9037, 2054, 2027, -53>>, <<2425, 4862, 15827, 2026, -53>>, <<7139, 2666, 13206, 2026, -53>>,
                 <<14910, 2462, 10575, 2026, -53>>, <<6460, 4264, 7934, 2026, -53>>, <<12448, 8083, 5283, 2026, -53>>,
                 <<15171, 13933, 2622, 2026, -53>>, <<14101, 5443, 16336, 2025, -53>>, <<9495, 15394, 13655, 2025, -53>>,
                 <<2400, 11031, 10965, 2025, -53>>, <<11036, 8750, 8265, 2025, -53>>, <<5259, 8566, 5555, 2025, -53>>,
                 <<4865, 10491, 2835, 2025, -53>>, <<14055, 14538, 105, 2025, -53>>, <<5049, 4338, 13750, 2024, -53>>,
                 <<8, 12671, 11000, 2024, -53>>, <<5497, 6782, 8241, 2024, -53>>, <<12484, 3069, 5472, 2024, -53>>,
                 <<12727, 1546, 2693, 2024, -53>>, <<15155, 2226, 16288, 2023, -53>>, <<13099, 5123, 13489, 2023, -53>>,
                 <<680, 10251, 10680, 2023, -53>>, <<5573, 1238, 7862, 2023, -53>>, <<7091, 10867, 5033, 2023, -53>>,
                 <<1716, 6384, 2195, 2023, -53>>, <<3102, 4186, 15731, 2022, -53>>>>[k]
          [] d = 9 ->
               <<<<9308, 4287, 12873, 2022, -53>>, <<2794, 6702, 10005, 2022, -53>>, <<15961, 11443, 7127, 2022, -53>>,
                 <<77, 2143, 4240, 2022, -53>>, <<5500, 11581, 1342, 2022, -53>>, <<1457, 7005, 14819, 2021, -53>>,
                 <<7111, 4812, 11902, 2021, -53>>, <<9647, 5017, 8975, 2021, -53>>, <<13420, 7634, 6038, 2021, -53>>,
                 <<7186, 12678, 3091, 2021, -53>>, <<13258, 3778, 135, 2021, -53>>, <<5582, 13718, 13552, 2020, -53>>,
                 <<8043, 9743, 10576, 2020, -53>>, <<12546, 8252, 7590, 2020, -53>>, <<11781, 9260, 4594, 2020, -53>>,
                 <<15608, 12781, 1588, 2020, -53>>, <<1906, 2447, 14957, 2019, -53>>, <<14876, 11038, 11931, 2019, -53>>,
                 <<1201, 5804, 8896, 2019, -53>>, <<6654, 3141, 5851, 2019, -53>>, <<12260, 3065, 2796, 2019, -53>>,
                 <<16210, 5591, 16115, 2018, -53>>, <<1101, 10735, 13040, 2018, -53>>, <<15848, 2125, 9956, 2018, -53>>,
                 <<11851, 12547, 6861, 2018, -53>>, <<6829, 9247, 3757, 2018, -53>>, <<2905, 8624, 643, 2018, -53>>,
                 <<2985, 10693, 13903, 2017, -53>>, <<10763, 15469, 10769, 2017, -53>>, <<14331, 6584, 7626, 2017, -53>>,
                 <<2571, 438, 4473, 2017, -53>>, <<14297, 13428, 1309, 2017, -53>>>>[k]
          [] d = 10 ->
               <<<<7191, 12804, 14520, 2016, -53>>, <<5257, 14964, 11337, 2016, -53>>, <<513, 3540, 8145, 2016, -53>>,
                 <<2149, 11315, 4942, 2016, -53>>, <<3752, 5537, 1730, 2016, -53>>, <<16083, 2605, 14892, 2015, -53>>,
                 <<1530, 2537, 11660, 2015, -53>>, <<5189, 5346, 8418, 2015, -53>>, <<7405, 11049, 5166, 2015, -53>>,
                 <<5689, 3278, 1905, 2015, -53>>, <<14721, 14816, 15017, 2014, -53>>, <<816, 12913, 11736, 2014, -53>>,
                 <<12989, 13966, 8445, 2014, -53>>, <<2737, 1610, 5145, 2014, -53>>, <<4263, 8627, 1834, 2014, -53>>,
                 <<3399, 2266, 14898, 2013, -53>>, <<3147, 15311, 11567, 2013, -53>>, <<7290, 15010, 8227, 2013, -53>>,
                 <<4014, 1380, 4878, 2013, -53>>, <<15055, 7204, 1518, 2013, -53>>, <<13781, 16116, 14532, 2012, -53>>,
                 <<7110, 11748, 11153, 2012, -53>>, <<2747, 10500, 7764, 2012, -53>>, <<9176, 12388, 4365, 2012, -53>>,
                 <<2899, 1046, 957, 2012, -53>>, <<10352, 9257, 13922, 2011, -53>>, <<9603, 4271, 10494, 2011, -53>>,
                 <<12271, 2488, 7056, 2011, -53>>, <<14373, 3925, 3608, 2011, -53>>, <<12709, 8599, 150, 2011, -53>>,
                 <<4862, 143, 13067, 2010, -53>>, <<5582, 11341, 9589, 2010, -53>>>>[k]
          [] d = 11 ->
               <<<<14018, 9442, 6102, 2010, -53>>, <<13716, 10848, 2605, 2010, -53>>, <<5389, 15576, 15482, 2009, -53>>,
                 <<6918, 7258, 11966, 2009, -53>>, <<4195, 2296, 8440, 2009, -53>>, <<282, 707, 4904, 2009, -53>>,
                 <<15404, 2507, 1358, 2009, -53>>, <<5033, 7716, 14186, 2008, -53>>, <<7344, 16349, 10620, 2008, -53>>,
                 <<12141, 12040, 7045, 2008, -53>>, <<10008, 11191, 3460, 2008, -53>>, <<8699, 13819, 16249, 2007, -53>>,
                 <<361, 3558, 12645, 2007, -53>>, <<10693, 13192, 9030, 2007, -53>>, <<639, 9973, 5406, 2007, -53>>,
                 <<13844, 10300, 1772, 2007, -53>>, <<12815, 14193, 14512, 2006, -53>>, <<9992, 5285, 10859, 2006, -53>>,
                 <<2210, 16362, 7195, 2006, -53>>, <<3472, 14673, 3522, 2006, -53>>, <<12177, 236, 16224, 2005, -53>>,
                 <<11119, 5838, 12531, 2005, -53>>, <<260, 15113, 8828, 2005, -53>>, <<13107, 11693, 5116, 2005, -53>>,
                 <<2030, 11983, 1394, 2005, -53>>, <<2099, 15999, 14046, 2004, -53>>, <<12, 7376, 10305, 2004, -53>>,
                 <<16015, 2515, 6554, 2004, -53>>, <<5600, 1437, 2793, 2004, -53>>, <<6956, 4158, 15406, 2003, -53>>,
                 <<9903, 10697, 11625, 2003, -53>>, <<5040, 4689, 7835, 2003, -53>>>>[k]
          [] d = 12 ->
               <<<<128, 2536, 4035, 2003, -53>>, <<3710, 4256, 225, 2003, -53>>, <<8724, 9868, 12789, 2002, -53>>,
                 <<8888, 3007, 8960, 2002, -53>>, <<15082, 75, 5121, 2002, -53>>, <<6199, 1092, 1272, 2002, -53>>,
                 <<11063, 6075, 13797, 2001, -53>>, <<10124, 15044, 9928, 2001, -53>>, <<996, 11634, 6050, 2001, -53>>,
                 <<14841, 12246, 2162, 2001, -53>>, <<1678, 518, 14649, 2000, -53>>, <<10610, 9234, 10741, 2000, -53>>,
                 <<9598, 5647, 6824, 2000, -53>>, <<152, 6160, 2897, 2000, -53>>, <<940, 10791, 15344, 1999, -53>>,
                 <<15029, 3175, 11398, 1999, -53>>, <<13494, 16101, 7441, 1999, -53>>, <<957, 436, 3476, 1999, -53>>,
                 <<15585, 5349, 15884, 1998, -53>>, <<14406, 14478, 11898, 1998, -53>>, <<4374, 11458, 7903, 1998, -53>>,
                 <<9609, 12691, 3898, 1998, -53>>, <<5853, 1814, 16268, 1997, -53>>, <<2396, 11614, 12243, 1997, -53>>,
                 <<9305, 9342, 8209, 1997, -53>>, <<4658, 11403, 4165, 1997, -53>>, <<75, 1432, 112, 1997, -53>>,
                 <<7956, 12216, 12432, 1996, -53>>, <<8710, 11008, 8359, 1996, -53>>, <<16290, 14211, 4276, 1996, -53>>,
                 <<12660, 5462, 184, 1996, -53>>, <<13327, 1164, 12466, 1995, -53>>>>[k]
          [] d = 13 ->
               <<<<1807, 1338, 8354, 1995, -53>>, <<11546, 6002, 4232, 1995, -53>>, <<11229, 15178, 100, 1995, -53>>,
                 <<3088, 12502, 12343, 1994, -53>>, <<6512, 14377, 8192, 1994, -53>>, <<8902, 4440, 4032, 1994, -53>>,
                 <<14817, 15479, 16245, 1993, -53>>, <<13208, 14747, 12065, 1993, -53>>, <<10187, 2264, 7876, 1993, -53>>,
                 <<12642, 10818, 3676, 1993, -53>>, <<11852, 7662, 15851, 1992, -53>>, <<16258, 9200, 11632, 1992, -53>>,
                 <<2305, 15454, 7403, 1992, -53>>, <<12752, 10058, 3165, 1992, -53>>, <<9213, 9419, 15301, 1991, -53>>,
                 <<3230, 13557, 11043, 1991, -53>>, <<7118, 6108, 6776, 1991, -53>>, <<1203, 3478, 2499, 1991, -53>>,
                 <<15734, 5686, 14596, 1990, -53>>, <<16201, 12755, 10299, 1990, -53>>, <<1638, 8322, 5993, 1990, -53>>,
                 <<4618, 8790, 1677, 1990, -53>>, <<9341, 14181, 13735, 1989, -53>>, <<778, 8133, 9400, 1989, -53>>,
                 <<13829, 7049, 5055, 1989, -53>>, <<2247, 10953, 700, 1989, -53>>, <<2479, 3480, 12720, 1988, -53>>,
                 <<2596, 1036, 8346, 1988, -53>>, <<7824, 3642, 3962, 1988, -53>>, <<7782, 11320, 15952, 1987, -53>>,
                 <<9244, 7707, 11549, 1987, -53>>, <<3376, 9209, 7136, 1987, -53>>>>[k]
          [] d = 14 ->
               <<<<14885, 15846, 2713, 1987, -53>>, <<3715, 11258, 14665, 1986, -53>>, <<12503, 11848, 10223, 1986, -53>>,
                 <<2741, 1256, 5772, 1986, -53>>, <<2228, 12270, 1310, 1986, -53>>, <<6771, 12144, 13223, 1985, -53>>,
                 <<12946, 900, 8743, 1985, -53>>, <<1721, 11329, 4252, 1985, -53>>, <<3988, 10683, 16136, 1984, -53>>,
                 <<2259, 15369, 11626, 1984, -53>>, <<12588, 9024, 7107, 1984, -53>>, <<2647, 8056, 2578, 1984, -53>>,
                 <<6419, 12485, 14423, 1983, -53>>, <<9506, 5950, 9875, 1983, -53>>, <<14665, 4857, 5317, 1983, -53>>,
                 <<9043, 9229, 749, 1983, -53>>, <<13326, 2703, 12556, 1982, -53>>, <<16204, 1686, 7969, 1982, -53>>,
                 <<7139, 6201, 3372, 1982, -53>>, <<9130, 16269, 15149, 1981, -53>>, <<13184, 15529, 10533, 1981, -53>>,
                 <<11076, 4004, 5908, 1981, -53>>, <<11737, 14484, 1272, 1981, -53>>, <<8486, 14224, 13011, 1980, -53>>,
                 <<11796, 3246, 8357, 1980, -53>>, <<142, 14342, 3692, 1980, -53>>, <<1925, 14765, 15402, 1979, -53>>,
                 <<13547, 4538, 10719, 1979, -53>>, <<15794, 69, 6026, 1979, -53>>, <<6611, 1381, 1323, 1979, -53>>,
                 <<1094, 8496, 12994, 1978, -53>>, <<15112, 5052, 8272, 1978, -53>>>>[k]
          [] d = 15 ->
               <<<<16149, 7458, 3540, 1978, -53>>, <<5229, 15737, 15182, 1977, -53>>, <<530, 13527, 10431, 1977, -53>>,
                 <<4615, 851, 5671, 1977, -53>>, <<4434, 10501, 900, 1977, -53>>, <<4088, 9732, 12504, 1976, -53>>,
                 <<8450, 14951, 7714, 1976, -53>>, <<6777, 9798, 2915, 1976, -53>>, <<5481, 10680, 14490, 1975, -53>>,
                 <<11740, 1236, 9672, 1975, -53>>, <<736, 14259, 4843, 1975, -53>>, <<13954, 618, 6, 1975, -53>>,
                 <<11728, 9491, 11542, 1974, -53>>, <<4315, 8133, 6685, 1974, -53>>, <<2737, 12951, 1818, 1974, -53>>,
                 <<2403, 7585, 13326, 1973, -53>>, <<15873, 8442, 8440, 1973, -53>>, <<7324, 15548, 3544, 1973, -53>>,
                 <<7237, 12541, 15023, 1972, -53>>, <<14091, 15829, 10108, 1972, -53>>, <<10753, 9053, 5184, 1972, -53>>,
                 <<13621, 8620, 250, 1972, -53>>, <<7097, 14555, 11690, 1971, -53>>, <<9114, 10497, 6737, 1971, -53>>,
                 <<5609, 12855, 1774, 1971, -53>>, <<16051, 5268, 13186, 1970, -53>>, <<11526, 4146, 8204, 1970, -53>>,
                 <<13037, 9512, 3212, 1970, -53>>, <<9588, 5007, 14595, 1969, -53>>, <<7332, 7039, 9584, 1969, -53>>,
                 <<13191, 15632, 4563, 1969, -53>>, <<2084, 14428, 15917, 1968, -53>>>>[k]
          [] d = 16 ->
               <<<<15232, 3449, 10878, 1968, -53>>, <<12703, 15490, 5828, 1968, -53>>, <<4483, 1423, 770, 1968, -53>>,
                 <<1324, 10424, 12085, 1967, -53>>, <<14745, 9749, 7007, 1967, -53>>, <<7878, 15809, 1919, 1967, -53>>,
                 <<10156, 12243, 13206, 1966, -53>>, <<2627, 15461, 8099, 1966, -53>>, <<16255, 9102, 2983, 1966, -53>>,
                 <<850, 9578, 14241, 1965, -53>>, <<5293, 527, 9106, 1965, -53>>, <<13691, 14743, 3960, 1965, -53>>,
                 <<10918, 3100, 15190, 1964, -53>>, <<15380, 14774, 10025, 1964, -53>>, <<13481, 639, 4852, 1964, -53>>,
                 <<8771, 9872, 16052, 1963, -53>>, <<5568, 9730, 10859, 1963, -53>>, <<8952, 238, 5657, 1963, -53>>,
                 <<8383, 14190, 444, 1963, -53>>, <<10471, 2459, 11607, 1962, -53>>, <<6204, 14223, 6375, 1962, -53>>,
                 <<3720, 355, 1135, 1962, -53>>, <<11919, 10032, 12268, 1961, -53>>, <<7697, 10513, 7008, 1961, -53>>,
                 <<1482, 1823, 1739, 1961, -53>>, <<4465, 371, 12844, 1960, -53>>, <<12217, 6183, 7555, 1960, -53>>,
                 <<4686, 2902, 2257, 1960, -53>>, <<11738, 6936, 13333, 1959, -53>>, <<14848, 1928, 8016, 1959, -53>>,
                 <<12638, 4288, 2689, 1959, -53>>, <<4493, 14042, 13736, 1958, -53>>>>[k]
          [] d = 17 ->
               <<<<6943, 14831, 8390, 1958, -53>>, <<4516, 6682, 3035, 1958, -53>>, <<15266, 6004, 14054, 1957, -53>>,
                 <<8859, 12825, 8679, 1957, -53>>, <<4876, 10786, 3295, 1957, -53>>, <<7275, 16297, 14285, 1956, -53>>,
                 <<4390, 13001, 8882, 1956, -53>>, <<1704, 924, 3470, 1956, -53>>, <<5459, 12860, 14431, 1955, -53>>,
                 <<6275, 16068, 8999, 1955, -53>>, <<11917, 10574, 3558, 1955, -53>>, <<14527, 12789, 14491, 1954, -53>>,
                 <<7010, 6356, 9031, 1954, -53>>, <<15797, 7684, 3561, 1954, -53>>, <<2544, 418, 14466, 1953, -53>>,
                 <<11590, 966, 8977, 1953, -53>>, <<6113, 9357, 3478, 1953, -53>>, <<15586, 9232, 14354, 1952, -53>>,
                 <<4708, 620, 8837, 1952, -53>>, <<4473, 16314, 3309, 1952, -53>>, <<13867, 7189, 14157, 1951, -53>>,
                 <<16254, 6041, 8611, 1951, -53>>, <<12138, 12897, 3055, 1951, -53>>, <<2785, 11400, 13874, 1950, -53>>,
                 <<6604, 1576, 8300, 1950, -53>>, <<9994, 16221, 2715, 1950, -53>>, <<116, 6211, 13506, 1949, -53>>,
                 <<14038, 4339, 7903, 1949, -53>>, <<7670, 10635, 2290, 1949, -53>>, <<3216, 8741, 13052, 1948, -53>>,
                 <<7254, 15068, 7420, 1948, -53>>, <<10737, 13260, 1779, 1948, -53>>>>[k]
          [] d = 18 ->
               <<<<5375, 3345, 12513, 1947, -53>>, <<23, 1734, 6853, 1947, -53>>, <<4292, 8454, 1183, 1947, -53>>,
                 <<12166, 7149, 11888, 1946, -53>>, <<2005, 14232, 6199, 1946, -53>>, <<2078, 13345, 501, 1946, -53>>,
                 <<8643, 4516, 11178, 1945, -53>>, <<2332, 4158, 5461, 1945, -53>>, <<13686, 12297, 16118, 1944, -53>>,
                 <<8466, 12579, 10382, 1944, -53>>, <<2344, 5031, 4637, 1944, -53>>, <<11748, 6064, 15266, 1943, -53>>,
                 <<4709, 15708, 9501, 1943, -53>>, <<15555, 1221, 3728, 1943, -53>>, <<13829, 11785, 14328, 1942, -53>>,
                 <<2602, 14660, 8535, 1942, -53>>, <<2084, 9873, 2733, 1942, -53>>, <<473, 13837, 13305, 1941, -53>>,
                 <<3107, 10196, 7484, 1941, -53>>, <<16080, 15362, 1653, 1941, -53>>, <<13472, 12981, 12197, 1940, -53>>,
                 <<2890, 3081, 6348, 1940, -53>>, <<9076, 2073, 489, 1940, -53>>, <<8378, 9987, 11004, 1939, -53>>,
                 <<10667, 10467, 5126, 1939, -53>>, <<10183, 3542, 15623, 1938, -53>>, <<1924, 5625, 9726, 1938, -53>>,
                 <<14407, 359, 3820, 1938, -53>>, <<11370, 4159, 14288, 1937, -53>>, <<6457, 669, 8363, 1937, -53>>,
                 <<14064, 6301, 2428, 1937, -53>>, <<192, 4702, 12868, 1936, -53>>>>[k]
          [] d = 19 ->
               <<<<13515, 12282, 6914, 1936, -53>>, <<5156, 12689, 951, 1936, -53>>, <<8912, 5950, 11363, 1935, -53>>,
                 <<10182, 8479, 5381, 1935, -53>>, <<11503, 3921, 15774, 1934, -53>>, <<16163, 8689, 9773, 1934, -53>>,
                 <<11820, 6429, 3763, 1934, -53>>, <<3271, 13554, 14127, 1933, -53>>, <<12447, 13708, 8098, 1933, -53>>,
                 <<12881, 6922, 2060, 1933, -53>>, <<11627, 9609, 12396, 1932, -53>>, <<105, 5415, 6339, 1932, -53>>,
                 <<3258, 10752, 272, 1932, -53>>, <<14012, 9266, 10580, 1931, -53>>, <<9660, 988, 4495, 1931, -53>>,
                 <<1017, 2331, 14784, 1930, -53>>, <<16031, 13323, 8679, 1930, -53>>, <<1483, 1229, 2566, 1930, -53>>,
                 <<3210, 15228, 12826, 1929, -53>>, <<2263, 6199, 6694, 1929, -53>>, <<13213, 6939, 552, 1929, -53>>,
                 <<2228, 1096, 10785, 1928, -53>>, <<1765, 5082, 4624, 1928, -53>>, <<12262, 2543, 14838, 1927, -53>>,
                 <<2142, 9895, 8658, 1927, -53>>, <<6111, 10782, 2469, 1927, -53>>, <<10475, 5235, 12655, 1926, -53>>,
                 <<2291, 9669, 6447, 1926, -53>>, <<2131, 7729, 230, 1926, -53>>, <<14935, 15829, 10387, 1925, -53>>,
                 <<13625, 1233, 4152, 1925, -53>>, <<4639, 13123, 14290, 1924, -53>>>>[k]
          [] d = 20 ->
               <<<<11548, 2376, 8036, 1924, -53>>, <<9521, 1792, 1772, 1924, -53>>, <<7246, 11401, 11882, 1923, -53>>,
                 <<14155, 14849, 5599, 1923, -53>>, <<7665, 12168, 15691, 1922, -53>>, <<15093, 3387, 9390, 1922, -53>>,
                 <<15350, 4922, 3079, 1922, -53>>, <<4481, 420, 13143, 1921, -53>>, <<12047, 6294, 6813, 1921, -53>>,
                 <<2821, 6193, 474, 1921, -53>>, <<7860, 146, 10510, 1920, -53>>, <<9815, 4569, 4152, 1920, -53>>,
                 <<8471, 3109, 14169, 1919, -53>>, <<4359, 12181, 7792, 1919, -53>>, <<15141, 15431, 1406, 1919, -53>>,
                 <<10075, 12892, 11395, 1918, -53>>, <<8317, 4594, 4991, 1918, -53>>, <<13385, 6952, 14961, 1917, -53>>,
                 <<13162, 3614, 8538, 1917, -53>>, <<12660, 10995, 2105, 1917, -53>>, <<1254, 12743, 12047, 1916, -53>>,
                 <<1830, 8888, 5596, 1916, -53>>, <<5258, 15846, 15519, 1915, -53>>, <<3147, 881, 9050, 1915, -53>>,
                 <<4242, 13176, 2570, 1915, -53>>, <<1645, 3611, 12466, 1914, -53>>, <<5589, 4985, 5968, 1914, -53>>,
                 <<10668, 946, 15845, 1913, -53>>, <<12222, 7910, 9328, 1913, -53>>, <<6335, 9525, 2802, 1913, -53>>,
                 <<6219, 5822, 12651, 1912, -53>>, <<9449, 13217, 6106, 1912, -53>>>>[k]
          [] d = 21 ->
               <<<<14341, 15358, 15936, 1911, -53>>, <<3575, 12278, 9373, 1911, -53>>, <<9725, 4007, 2801, 1911, -53>>,
                 <<572, 6963, 12603, 1910, -53>>, <<10180, 4792, 6012, 1910, -53>>, <<7818, 13912, 15795, 1909, -53>>,
                 <<12652, 1586, 9186, 1909, -53>>, <<11821, 615, 2567, 1909, -53>>, <<9595, 11031, 12322, 1908, -53>>,
                 <<10983, 98, 5685, 1908, -53>>, <<5356, 617, 15422, 1907, -53>>, <<15594, 12619, 8765, 1907, -53>>,
                 <<16169, 3370, 2100, 1907, -53>>, <<15062, 5670, 11809, 1906, -53>>, <<4611, 3168, 5125, 1906, -53>>,
                 <<10669, 12279, 14815, 1905, -53>>, <<10674, 269, 8113, 1905, -53>>, <<15575, 16322, 1400, 1905, -53>>,
                 <<4296, 11320, 11063, 1904, -53>>, <<5654, 1678, 4333, 1904, -53>>, <<55, 3814, 13977, 1903, -53>>,
                 <<1412, 1376, 7228, 1903, -53>>, <<7999, 10781, 469, 1903, -53>>, <<2445, 15679, 10085, 1902, -53>>,
                 <<886, 16102, 3308, 1902, -53>>, <<3817, 12083, 12906, 1901, -53>>, <<12472, 3655, 6111, 1901, -53>>,
                 <<12441, 7236, 15690, 1900, -53>>, <<6440, 6475, 8876, 1900, -53>>, <<14305, 1404, 2053, 1900, -53>>,
                 <<7464, 8442, 11604, 1899, -53>>, <<7234, 11237, 4762, 1899, -53>>>>[k]
          [] d = 22 ->
               <<<<2904, 9823, 14295, 1898, -53>>, <<885, 4233, 7435, 1898, -53>>, <<8330, 10884, 565, 1898, -53>>,
                 <<359, 13427, 10070, 1897, -53>>, <<1986, 11894, 3182, 1897, -53>>, <<6194, 6319, 12669, 1896, -53>>,
                 <<6704, 13120, 5762, 1896, -53>>, <<14361, 15946, 15230, 1895, -53>>, <<7978, 14832, 8305, 1895, -53>>,
                 <<16259, 9810, 1371, 1895, -53>>, <<3110, 916, 10812, 1894, -53>>, <<15093, 4565, 3859, 1894, -53>>,
                 <<1206, 4410, 13281, 1893, -53>>, <<9486, 482, 6310, 1893, -53>>, <<6787, 9201, 15713, 1892, -53>>,
                 <<9854, 14216, 8723, 1892, -53>>, <<3398, 15562, 1724, 1892, -53>>, <<5637, 13272, 11100, 1891, -53>>,
                 <<2757, 7381, 4083, 1891, -53>>, <<14446, 14306, 13440, 1890, -53>>, <<11978, 1315, 6405, 1890, -53>>,
                 <<131, 1210, 15744, 1889, -53>>, <<803, 14024, 8689, 1889, -53>>, <<3858, 7024, 1626, 1889, -53>>,
                 <<16280, 13012, 10937, 1888, -53>>, <<13022, 15640, 3855, 1888, -53>>, <<2536, 14942, 13148, 1887, -53>>,
                 <<10398, 10951, 6048, 1887, -53>>, <<13764, 3703, 15323, 1886, -53>>, <<6907, 9617, 8204, 1886, -53>>,
                 <<1221, 12343, 1076, 1886, -53>>, <<8834, 11915, 10323, 1885, -53>>>>[k]
          [] d = 23 ->
               <<<<9839, 8369, 3177, 1885, -53>>, <<1447, 1740, 12406, 1884, -53>>, <<14371, 8445, 5241, 1884, -53>>,
                 <<14522, 12137, 14451, 1883, -53>>, <<1312, 12851, 7268, 1883, -53>>, <<7653, 10620, 76, 1883, -53>>,
                 <<1657, 5481, 9259, 1882, -53>>, <<1318, 13852, 2048, 1882, -53>>, <<8979, 3000, 11213, 1881, -53>>,
                 <<11333, 5729, 3984, 1881, -53>>, <<12189, 5690, 13130, 1880, -53>>, <<16087, 2918, 5883, 1880, -53>>,
                 <<11916, 13833, 15010, 1879, -53>>, <<5681, 5702, 7745, 1879, -53>>, <<4118, 11328, 470, 1879, -53>>,
                 <<14694, 14362, 9570, 1878, -53>>, <<12840, 14841, 2277, 1878, -53>>, <<7487, 12800, 11359, 1877, -53>>,
                 <<8296, 8274, 4048, 1877, -53>>, <<9275, 1299, 13112, 1876, -53>>, <<5163, 8295, 5782, 1876, -53>>,
                 <<7811, 12913, 14827, 1875, -53>>, <<13420, 15189, 7479, 1875, -53>>, <<2535, 15160, 122, 1875, -53>>,
                 <<5583, 12860, 9140, 1874, -53>>, <<4570, 8326, 1765, 1874, -53>>, <<14997, 1593, 10765, 1873, -53>>,
                 <<3945, 9083, 3371, 1873, -53>>, <<4759, 14446, 12352, 1872, -53>>, <<2362, 1335, 4941, 1872, -53>>,
                 <<15172, 2553, 13904, 1871, -53>>, <<13185, 1754, 6474, 1871, -53>>>>[k]
          [] d = 24 ->
               <<<<16277, 15357, 15418, 1870, -53>>, <<12286, 10631, 7970, 1870, -53>>, <<6160, 3996, 513, 1870, -53>>,
                 <<3576, 11872, 9430, 1869, -53>>, <<10939, 1527, 1955, 1869, -53>>, <<2613, 5767, 10854, 1868, -53>>,
                 <<2840, 8243, 3360, 1868, -53>>, <<3826, 8992, 12241, 1867, -53>>, <<14884, 8050, 4729, 1867, -53>>,
                 <<13286, 5455, 13592, 1866, -53>>, <<9801, 1243, 6062, 1866, -53>>, <<15923, 11834, 14906, 1865, -53>>,
                 <<11104, 4498, 7358, 1865, -53>>, <<8292, 12039, 16184, 1864, -53>>, <<4776, 1726, 8618, 1864, -53>>,
                 <<14954, 6363, 1042, 1864, -53>>, <<4798, 9605, 9841, 1863, -53>>, <<6543, 11487, 2247, 1863, -53>>,
                 <<3997, 12047, 11028, 1862, -53>>, <<14458, 11321, 3416, 1862, -53>>, <<6802, 9348, 12179, 1861, -53>>,
                 <<16161, 6163, 4549, 1861, -53>>, <<12859, 1805, 13294, 1860, -53>>, <<711, 12695, 5645, 1860, -53>>,
                 <<639, 6101, 14372, 1859, -53>>, <<1524, 14829, 6705, 1859, -53>>, <<9353, 6148, 15414, 1858, -53>>,
                 <<14452, 12864, 7729, 1858, -53>>, <<7872, 2247, 36, 1858, -53>>, <<14154, 7101, 8717, 1857, -53>>,
                 <<9412, 11081, 1005, 1857, -53>>, <<3249, 14224, 9668, 1856, -53>>>>[k]
          [] d = 25 ->
               <<<<5991, 183, 1939, 1856, -53>>, <<12305, 1764, 10584, 1855, -53>>, <<1192, 2622, 2836, 1855, -53>>,
                 <<1532, 2793, 11463, 1854, -53>>, <<10155, 2315, 3697, 1854, -53>>, <<8232, 1227, 12306, 1853, -53>>,
                 <<10422, 15950, 4521, 1853, -53>>, <<15721, 13754, 13112, 1852, -53>>, <<7463, 11062, 5310, 1852, -53>>,
                 <<2472, 7911, 13883, 1851, -53>>, <<1907, 4339, 6063, 1851, -53>>, <<7649, 384, 14618, 1850, -53>>,
                 <<5917, 12469, 6779, 1850, -53>>, <<30, 7864, 15316, 1849, -53>>, <<10416, 2990, 7460, 1849, -53>>,
                 <<9068, 14271, 15978, 1848, -53>>, <<1467, 8977, 8104, 1848, -53>>, <<10199, 3529, 221, 1848, -53>>,
                 <<9417, 14351, 8712, 1847, -53>>, <<6760, 8713, 811, 1847, -53>>, <<10588, 3037, 9285, 1846, -53>>,
                 <<13595, 13746, 1365, 1846, -53>>, <<9192, 8111, 9821, 1845, -53>>, <<7895, 2554, 1884, 1845, -53>>,
                 <<4553, 13498, 10321, 1844, -53>>, <<11118, 8213, 2366, 1844, -53>>, <<7491, 3123, 10786, 1843, -53>>,
                 <<7060, 14650, 2812, 1843, -53>>, <<7544, 10065, 11214, 1842, -53>>, <<7381, 5791, 3223, 1842, -53>>,
                 <<5728, 1867, 11607, 1841, -53>>, <<2456, 14716, 3597, 1841, -53>>>>[k]
          [] d = 26 ->
               <<<<14538, 11608, 11963, 1840, -53>>, <<10511, 8968, 3936, 1840, -53>>, <<8782, 6834, 12284, 1839, -53>>,
                 <<12088, 5245, 4239, 1839, -53>>, <<7500, 4241, 12569, 1838, -53>>, <<15572, 3860, 4506, 1838, -53>>,
                 <<8422, 4143, 12818, 1837, -53>>, <<8034, 5128, 4737, 1837, -53>>, <<4340, 6855, 13031, 1836, -53>>,
                 <<4374, 9363, 4932, 1836, -53>>, <<15880, 12691, 13208, 1835, -53>>, <<14551, 496, 5092, 1835, -53>>,
                 <<9563, 5585, 13350, 1834, -53>>, <<10807, 11613, 5215, 1834, -53>>, <<12501, 2236, 13456, 1833, -53>>,
                 <<9579, 10262, 5303, 1833, -53>>, <<14074, 2962, 13526, 1832, -53>>, <<5961, 13145, 5355, 1832, -53>>,
                 <<15084, 8081, 13560, 1831, -53>>, <<6462, 4196, 5372, 1831, -53>>, <<11363, 1528, 13559, 1830, -53>>,
                 <<12617, 118, 5353, 1830, -53>>, <<10149, 6, 13522, 1829, -53>>, <<4597, 1232, 5298, 1829, -53>>,
                 <<13696, 3835, 13449, 1828, -53>>, <<6740, 7857, 5207, 1828, -53>>, <<2886, 13337, 13340, 1827, -53>>,
                 <<5621, 3931, 5081, 1827, -53>>, <<2757, 12448, 13196, 1826, -53>>, <<15586, 6159, 4919, 1826, -53>>,
                 <<577, 1491, 13017, 1825, -53>>, <<13209, 14865, 4721, 1825, -53>>>>[k]
          [] d = 27 ->
               <<<<11373, 13556, 12801, 1824, -53>>, <<2818, 13988, 4488, 1824, -53>>, <<12390, 16200, 12550, 1823, -53>>,
                 <<109, 3851, 4220, 1823, -53>>, <<8623, 9747, 12264, 1822, -53>>, <<15753, 1162, 3916, 1822, -53>>,
                 <<34, 10906, 11942, 1821, -53>>, <<6241, 6249, 3576, 1821, -53>>, <<14324, 3617, 11585, 1820, -53>>,
                 <<4943, 3052, 3201, 1820, -53>>, <<8618, 4593, 11192, 1819, -53>>, <<7423, 8282, 2790, 1819, -53>>,
                 <<528, 14160, 10763, 1818, -53>>, <<4192, 5883, 2344, 1818, -53>>, <<2616, 16261, 10299, 1817, -53>>,
                 <<13476, 12566, 1862, 1817, -53>>, <<6001, 11225, 9800, 1816, -53>>, <<15667, 12277, 1345, 1816, -53>>,
                 <<13119, 15765, 9265, 1815, -53>>, <<2477, 5346, 793, 1815, -53>>, <<4951, 13828, 8695, 1814, -53>>,
                 <<9691, 8485, 205, 1814, -53>>, <<6553, 5743, 8090, 1813, -53>>, <<2480, 5643, 15966, 1812, -53>>,
                 <<5126, 8226, 7449, 1812, -53>>, <<6462, 13534, 15307, 1811, -53>>, <<15550, 5224, 6773, 1811, -53>>,
                 <<9390, 16107, 14613, 1810, -53>>, <<14838, 13455, 6061, 1810, -53>>, <<10304, 13695, 13884, 1809, -53>>,
                 <<7669, 484, 5315, 1809, -53>>, <<3134, 6632, 13120, 1808, -53>>>>[k]
          [] d = 28 ->
               <<<<9992, 15796, 4532, 1808, -53>>, <<9467, 11635, 12320, 1807, -53>>, <<16258, 10574, 3715, 1807, -53>>,
                 <<12998, 12656, 11485, 1806, -53>>, <<15793, 1538, 2863, 1806, -53>>, <<8682, 10031, 10615, 1805, -53>>,
                 <<9177, 5408, 1975, 1805, -53>>, <<2724, 4096, 9710, 1804, -53>>, <<8239, 6136, 1052, 1804, -53>>,
                 <<12573, 11571, 8769, 1803, -53>>, <<3278, 4060, 94, 1803, -53>>, <<1377, 28, 7794, 1802, -53>>,
                 <<12212, 15901, 15484, 1801, -53>>, <<9056, 2571, 6783, 1801, -53>>, <<15036, 9231, 14456, 1800, -53>>,
                 <<4829, 3157, 5737, 1800, -53>>, <<2965, 774, 13393, 1799, -53>>, <<1905, 2125, 4656, 1799, -53>>,
                 <<11196, 7252, 12294, 1798, -53>>, <<8317, 16199, 3539, 1798, -53>>, <<4214, 12624, 11160, 1797, -53>>,
                 <<10535, 12953, 2388, 1797, -53>>, <<6858, 846, 9992, 1796, -53>>, <<6228, 9113, 1202, 1796, -53>>,
                 <<6007, 5029, 8788, 1795, -53>>, <<4255, 5021, 16365, 1794, -53>>, <<16115, 9131, 7549, 1794, -53>>,
                 <<8277, 1020, 15109, 1793, -53>>, <<13663, 13497, 6275, 1793, -53>>, <<362, 13839, 13817, 1792, -53>>,
                 <<2691, 2087, 4967, 1792, -53>>, <<6519, 11053, 12491, 1791, -53>>>>[k]
          [] d = 29 ->
               <<<<14790, 8012, 3623, 1791, -53>>, <<14768, 9392, 11130, 1790, -53>>, <<10794, 15236, 2244, 1790, -53>>,
                 <<7905, 9203, 9734, 1789, -53>>, <<11839, 7720, 831, 1789, -53>>, <<12642, 10831, 8303, 1788, -53>>,
                 <<1061, 2196, 15767, 1787, -53>>, <<1301, 14625, 6837, 1787, -53>>, <<5502, 15394, 14283, 1786, -53>>,
                 <<6493, 4547, 5337, 1786, -53>>, <<14187, 14895, 12765, 1785, -53>>, <<6421, 13715, 3801, 1785, -53>>,
                 <<10883, 1049, 11213, 1784, -53>>, <<6801, 9710, 2231, 1784, -53>>, <<6864, 6973, 9625, 1783, -53>>,
                 <<8075, 9266, 626, 1783, -53>>, <<8130, 249, 8003, 1782, -53>>, <<5418, 12734, 15370, 1781, -53>>,
                 <<15406, 13996, 6345, 1781, -53>>, <<5103, 4081, 13696, 1780, -53>>, <<7747, 15799, 4653, 1780, -53>>,
                 <<8119, 43, 11987, 1779, -53>>, <<8072, 6009, 2927, 1779, -53>>, <<10157, 973, 10243, 1778, -53>>,
                 <<1231, 1364, 1166, 1778, -53>>, <<1611, 7225, 8464, 1777, -53>>, <<15922, 2216, 15754, 1776, -53>>,
                 <<331, 2768, 6651, 1776, -53>>, <<9997, 8922, 13923, 1775, -53>>, <<2469, 4341, 4803, 1775, -53>>,
                 <<1523, 5452, 12058, 1774, -53>>, <<15240, 12299, 2920, 1774, -53>>>>[k]
          [] d = 30 ->
               <<<<3243, 8545, 10158, 1773, -53>>, <<7761, 10616, 1003, 1773, -53>>, <<6182, 2174, 8224, 1772, -53>>,
                 <<9350, 16031, 15435, 1771, -53>>, <<12412, 3080, 6255, 1771, -53>>, <<11211, 12518, 13449, 1770, -53>>,
                 <<2274, 11622, 4251, 1770, -53>>, <<15587, 435, 11429, 1769, -53>>, <<16289, 11772, 2213, 1769, -53>>,
                 <<2977, 12910, 9373, 1768, -53>>, <<7702, 3892, 141, 1768, -53>>, <<14052, 1148, 7284, 1767, -53>>,
                 <<6306, 4724, 14418, 1766, -53>>, <<2195, 14664, 5159, 1766, -53>>, <<3756, 14629, 12276, 1765, -53>>,
                 <<13711, 4664, 3001, 1765, -53>>, <<2706, 1200, 10101, 1764, -53>>, <<7604, 4280, 808, 1764, -53>>,
                 <<423, 13951, 7890, 1763, -53>>, <<3019, 13873, 14964, 1762, -53>>, <<5165, 4092, 5646, 1762, -53>>,
                 <<13705, 1037, 12703, 1761, -53>>, <<3400, 4755, 3367, 1761, -53>>, <<15233, 15289, 10406, 1760, -53>>,
                 <<8955, 16303, 1053, 1760, -53>>, <<10534, 7841, 8076, 1759, -53>>, <<13857, 6333, 15090, 1758, -53>>,
                 <<13497, 11825, 5711, 1758, -53>>, <<4710, 7979, 12708, 1757, -53>>, <<16205, 11223, 3312, 1757, -53>>,
                 <<11837, 5221, 10292, 1756, -53>>, <<5302, 6402, 879, 1756, -53>>>>[k]
          [] d = 31 ->
               <<<<10974, 14811, 7841, 1755, -53>>, <<11145, 14111, 14795, 1754, -53>>, <<5175, 4348, 5357, 1754, -53>>,
                 <<9490, 1951, 12294, 1753, -53>>, <<8431, 6967, 2838, 1753, -53>>, <<3404, 3058, 9758, 1752, -53>>,
                 <<12885, 6653, 285, 1752, -53>>, <<6876, 1416, 7188, 1751, -53>>, <<5216, 3776, 14082, 1750, -53>>,
                 <<12040, 13779, 4583, 1750, -53>>, <<15781, 15088, 11460, 1749, -53>>, <<5552, 7750, 1945, 1749, -53>>,
                 <<3917, 8194, 8805, 1748, -53>>, <<1353, 83, 15657, 1747, -53>>, <<5398, 16231, 6115, 1747, -53>>,
                 <<7890, 7533, 12950, 1746, -53>>, <<1344, 6804, 3392, 1746, -53>>, <<11727, 14089, 10209, 1745, -53>>,
                 <<146, 13053, 634, 1745, -53>>, <<10308, 3740, 7435, 1744, -53>>, <<4680, 2583, 14227, 1743, -53>>,
                 <<11944, 9627, 4626, 1743, -53>>, <<12308, 8536, 11401, 1742, -53>>, <<3043, 15741, 1783, 1742, -53>>,
                 <<14866, 14903, 8541, 1741, -53>>, <<13636, 6071, 15291, 1740, -53>>, <<15043, 5675, 5648, 1740, -53>>,
                 <<2683, 13763, 12380, 1739, -53>>, <<9986, 13996, 2720, 1739, -53>>, <<5520, 6423, 9436, 1738, -53>>,
                 <<7683, 7474, 16143, 1737, -53>>, <<2781, 813, 6458, 1737, -53>>>>[k]
          [] d = 32 ->
               <<<<10565, 2870, 13148, 1736, -53>>, <<2311, 13694, 3445, 1736, -53>>, <<15504, 562, 10119, 1735, -53>>,
                 <<6389, 12676, 399, 1735, -53>>, <<13803, 929, 7056, 1734, -53>>, <<11723, 14522, 13703, 1733, -53>>,
                 <<7570, 4350, 3959, 1733, -53>>, <<9440, 3228, 10590, 1732, -53>>, <<9719, 11204, 828, 1732, -53>>,
                 <<1466, 11942, 7442, 1731, -53>>, <<11183, 5488, 14048, 1730, -53>>, <<512, 8276, 4261, 1730, -53>>,
                 <<13686, 3967, 10850, 1729, -53>>, <<13691, 8995, 1046, 1729, -53>>, <<13342, 7023, 7618, 1728, -53>>,
                 <<9739, 14483, 14181, 1727, -53>>, <<656, 15039, 4352, 1727, -53>>, <<924, 8738, 10899, 1726, -53>>,
                 <<9661, 12012, 1053, 1726, -53>>, <<10275, 8526, 7583, 1725, -53>>, <<3228, 14712, 14104, 1724, -53>>,
                 <<6039, 14233, 4233, 1724, -53>>, <<4128, 7138, 10738, 1723, -53>>, <<16356, 9858, 850, 1723, -53>>,
                 <<13103, 6059, 7338, 1722, -53>>, <<14571, 12172, 13817, 1721, -53>>, <<8864, 11862, 3904, 1721, -53>>,
                 <<1141, 5177, 10367, 1720, -53>>, <<13614, 8548, 437, 1720, -53>>, <<3629, 5642, 6883, 1719, -53>>,
                 <<11122, 12889, 13320, 1718, -53>>, <<11161, 13955, 3365, 1718, -53>>>>[k]
          [] d = 33 ->
               <<<<12252, 8888, 9786, 1717, -53>>, <<7185, 14121, 16198, 1716, -53>>, <<5804, 13318, 6218, 1716, -53>>,
                 <<2235, 6528, 12614, 1715, -53>>, <<7658, 10183, 2617, 1715, -53>>, <<1151, 7949, 8996, 1714, -53>>,
                 <<11613, 16257, 15366, 1713, -53>>, <<3073, 2390, 5345, 1713, -53>>, <<5765, 15547, 11698, 1712, -53>>,
                 <<1435, 6626, 1660, 1712, -53>>, <<5267, 8443, 7997, 1711, -53>>, <<340, 4664, 14326, 1710, -53>>,
                 <<3170, 11721, 4262, 1710, -53>>, <<14553, 13279, 10574, 1709, -53>>, <<3182, 9389, 494, 1709, -53>>,
                 <<3954, 98, 6790, 1708, -53>>, <<3277, 1840, 13077, 1707, -53>>, <<4608, 14664, 2971, 1707, -53>>,
                 <<12071, 5851, 9242, 1706, -53>>, <<14067, 8219, 15504, 1705, -53>>, <<16048, 5433, 5374, 1705, -53>>,
                 <<7744, 13927, 11619, 1704, -53>>, <<12318, 981, 1473, 1704, -53>>, <<4444, 15798, 7701, 1703, -53>>,
                 <<8611, 9274, 13922, 1702, -53>>, <<819, 14228, 3750, 1702, -53>>, <<6883, 14324, 9954, 1701, -53>>,
                 <<4130, 9613, 16150, 1700, -53>>, <<3313, 144, 5954, 1700, -53>>, <<15852, 2350, 12133, 1699, -53>>,
                 <<4673, 16283, 1919, 1699, -53>>, <<15286, 9222, 8082, 1698, -53>>>>[k]
          [] d = 34 ->
               <<<<11940, 13987, 14236, 1697, -53>>, <<8701, 14243, 3998, 1697, -53>>, <<3907, 10040, 10136, 1696, -53>>,
                 <<12943, 1427, 16266, 1695, -53>>, <<2702, 4840, 6003, 1695, -53>>, <<6274, 3943, 12116, 1694, -53>>,
                 <<8256, 15171, 1836, 1694, -53>>, <<10288, 5806, 7933, 1693, -53>>, <<14669, 8666, 14021, 1692, -53>>,
                 <<7976, 7418, 3717, 1692, -53>>, <<10209, 2111, 9789, 1691, -53>>, <<9261, 9180, 15852, 1690, -53>>,
                 <<10068, 12291, 5523, 1690, -53>>, <<1838, 11495, 11570, 1689, -53>>, <<7206, 6841, 1225, 1689, -53>>,
                 <<312, 14765, 7255, 1688, -53>>, <<5106, 2548, 13278, 1687, -53>>, <<13427, 3009, 2908, 1687, -53>>,
                 <<1387, 16200, 8913, 1686, -53>>, <<11291, 9401, 14911, 1685, -53>>, <<4179, 15433, 4516, 1685, -53>>,
                 <<7285, 1577, 10498, 1684, -53>>, <<15729, 652, 87, 1684, -53>>, <<8904, 12710, 6051, 1683, -53>>,
                 <<16011, 5032, 12008, 1682, -53>>, <<1367, 10439, 1572, 1682, -53>>, <<11868, 12595, 7512, 1681, -53>>,
                 <<13142, 11553, 13444, 1680, -53>>, <<4240, 7364, 2984, 1680, -53>>, <<1252, 78, 8900, 1679, -53>>,
                 <<4537, 6130, 14807, 1678, -53>>, <<15108, 9187, 4322, 1678, -53>>>>[k]
          [] d = 35 ->
               <<<<1863, 9302, 10213, 1677, -53>>, <<16274, 6523, 16096, 1676, -53>>, <<12161, 904, 5587, 1676, -53>>,
                 <<9534, 8879, 11453, 1675, -53>>, <<12670, 14115, 927, 1675, -53>>, <<10114, 280, 6778, 1674, -53>>,
                 <<7449, 193, 12620, 1673, -53>>, <<10908, 13905, 2069, 1673, -53>>, <<10992, 8700, 7895, 1672, -53>>,
                 <<15235, 1013, 13713, 1671, -53>>, <<15443, 7280, 3138, 1671, -53>>, <<4067, 11169, 8939, 1670, -53>>,
                 <<6981, 12730, 14732, 1669, -53>>, <<1553, 12016, 4133, 1669, -53>>, <<14957, 9077, 9910, 1668, -53>>,
                 <<9478, 3967, 15679, 1667, -53>>, <<13587, 13120, 5055, 1667, -53>>, <<7253, 3821, 10808, 1666, -53>>,
                 <<3859, 8889, 168, 1666, -53>>, <<1058, 11992, 5904, 1665, -53>>, <<13531, 13181, 11632, 1664, -53>>,
                 <<7456, 12510, 968, 1664, -53>>, <<15195, 10029, 6680, 1663, -53>>, <<4223, 5792, 12384, 1662, -53>>,
                 <<8198, 16233, 1695, 1662, -53>>, <<12271, 8637, 7383, 1661, -53>>, <<2242, 15825, 13062, 1660, -53>>,
                 <<13708, 5079, 2350, 1660, -53>>, <<996, 9222, 8013, 1659, -53>>, <<995, 11920, 13668, 1658, -53>>,
                 <<2089, 13226, 2931, 1658, -53>>, <<9692, 13192, 8570, 1657, -53>>>>[k]
          [] d = 36 ->
               <<<<13480, 11871, 14201, 1656, -53>>, <<3774, 9316, 3440, 1656, -53>>, <<4305, 5578, 9055, 1655, -53>>,
                 <<6686, 710, 14662, 1654, -53>>, <<3170, 11149, 3876, 1654, -53>>, <<3039, 4179, 9467, 1653, -53>>,
                 <<16219, 12620, 15049, 1652, -53>>, <<4128, 3759, 4240, 1652, -53>>, <<10748, 10414, 9806, 1651, -53>>,
                 <<15165, 16255, 15364, 1650, -53>>, <<13496, 4951, 4531, 1650, -53>>, <<2497, 9323, 10073, 1649, -53>>,
                 <<12337, 13038, 15607, 1648, -53>>, <<8288, 16151, 4749, 1648, -53>>, <<5419, 2330, 10268, 1647, -53>>,
                 <<3055, 4396, 15778, 1646, -53>>, <<1161, 6018, 4896, 1646, -53>>, <<346, 7249, 10390, 1645, -53>>,
                 <<1857, 8142, 15876, 1644, -53>>, <<7582, 8750, 4970, 1644, -53>>, <<3667, 9127, 10440, 1643, -53>>,
                 <<9663, 9325, 15902, 1642, -53>>, <<12996, 9398, 4972, 1642, -53>>, <<1728, 9400, 10418, 1641, -53>>,
                 <<13716, 9382, 15856, 1640, -53>>, <<5532, 9400, 4902, 1640, -53>>, <<16311, 9505, 10324, 1639, -53>>,
                 <<3901, 9753, 15738, 1638, -53>>, <<8712, 10195, 4760, 1638, -53>>, <<6257, 10886, 10158, 1637, -53>>,
                 <<5450, 11879, 15548, 1636, -53>>, <<15847, 13227, 4546, 1636, -53>>>>[k]
          [] d = 37 ->
               <<<<14868, 14985, 9920, 1635, -53>>, <<13344, 822, 15287, 1634, -53>>, <<6355, 3560, 4261, 1634, -53>>,
                 <<5999, 6868, 9611, 1633, -53>>, <<8632, 10800, 14953, 1632, -53>>, <<11242, 15410, 3903, 1632, -53>>,
                 <<11452, 4368, 9230, 1631, -53>>, <<7521, 10496, 14548, 1630, -53>>, <<14729, 1079, 3475, 1630, -53>>,
                 <<16221, 8940, 8777, 1629, -53>>, <<12159, 1365, 14072, 1628, -53>>, <<3341, 11176, 2974, 1628, -53>>,
                 <<7585, 5658, 8253, 1627, -53>>, <<10570, 1250, 13524, 1626, -53>>, <<14996, 14390, 2402, 1626, -53>>,
                 <<7810, 12365, 7657, 1625, -53>>, <<9362, 11612, 12904, 1624, -53>>, <<7865, 12186, 1759, 1624, -53>>,
                 <<8549, 14141, 6990, 1623, -53>>, <<892, 1148, 12214, 1622, -53>>, <<7772, 6028, 1045, 1622, -53>>,
                 <<3547, 12453, 6252, 1621, -53>>, <<12355, 4092, 11452, 1620, -53>>, <<9818, 13769, 259, 1620, -53>>,
                 <<4955, 8770, 5443, 1619, -53>>, <<7413, 5533, 10619, 1618, -53>>, <<11088, 4113, 15787, 1617, -53>>,
                 <<10506, 4565, 4563, 1617, -53>>, <<821, 6944, 9715, 1616, -53>>, <<10586, 11303, 14859, 1615, -53>>,
                 <<3446, 1315, 3612, 1615, -53>>, <<9212, 9801, 8740, 1614, -53>>>>[k]
          [] d = 38 ->
               <<<<9170, 4049, 13861, 1613, -53>>, <<1620, 498, 2590, 1613, -53>>, <<1874, 15586, 7694, 1612, -53>>,
                 <<9487, 216, 12792, 1611, -53>>, <<8257, 3596, 1497, 1611, -53>>, <<15381, 9396, 6578, 1610, -53>>,
                 <<15909, 1288, 11652, 1609, -53>>, <<11907, 12095, 333, 1609, -53>>, <<6065, 9104, 5391, 1608, -53>>,
                 <<1700, 8754, 10441, 1607, -53>>, <<2754, 11100, 15483, 1606, -53>>, <<13796, 16197, 4133, 1606, -53>>,
                 <<7252, 7718, 9160, 1605, -53>>, <<5325, 2101, 14179, 1604, -53>>, <<14458, 15785, 2805, 1604, -53>>,
                 <<8952, 16059, 7808, 1603, -53>>, <<12884, 2977, 12804, 1602, -53>>, <<1803, 9364, 1407, 1602, -53>>,
                 <<1033, 2506, 6387, 1601, -53>>, <<3754, 15227, 11358, 1600, -53>>, <<3770, 14815, 16322, 1599, -53>>,
                 <<11892, 1325, 4895, 1599, -53>>, <<6784, 7582, 9843, 1598, -53>>, <<502, 873, 14784, 1597, -53>>,
                 <<5725, 14021, 3332, 1597, -53>>, <<2983, 14315, 8257, 1596, -53>>, <<6197, 1810, 13175, 1595, -53>>,
                 <<13527, 9330, 1700, 1595, -53>>, <<7368, 4164, 6602, 1594, -53>>, <<3505, 2751, 11496, 1593, -53>>,
                 <<1958, 5147, 16382, 1592, -53>>, <<3369, 11408, 4876, 1592, -53>>>>[k]
          [] d = 39 ->
               <<<<9000, 5206, 9747, 1591, -53>>, <<4347, 2982, 14610, 1590, -53>>, <<8295, 4791, 3081, 1590, -53>>,
                 <<7580, 10690, 7928, 1589, -53>>, <<5939, 4351, 12768, 1588, -53>>, <<7731, 2214, 1216, 1588, -53>>,
                 <<1546, 4336, 6040, 1587, -53>>, <<9363, 10772, 10856, 1586, -53>>, <<4625, 5196, 15665, 1585, -53>>,
                 <<10544, 4047, 4082, 1585, -53>>, <<1799, 7383, 8875, 1584, -53>>, <<2836, 15259, 13660, 1583, -53>>,
                 <<5953, 11348, 2054, 1583, -53>>, <<4061, 12091, 6824, 1582, -53>>, <<7071, 1160, 11587, 1581, -53>>,
                 <<9130, 11380, 16341, 1580, -53>>, <<4996, 10040, 4704, 1580, -53>>, <<6428, 13580, 9443, 1579, -53>>,
                 <<9418, 5673, 14175, 1578, -53>>, <<10570, 2760, 2515, 1578, -53>>, <<7103, 4898, 7231, 1577, -53>>,
                 <<13235, 12143, 11939, 1576, -53>>, <<11031, 8169, 256, 1576, -53>>, <<15933, 9416, 4949, 1575, -53>>,
                 <<11235, 15942, 9634, 1574, -53>>, <<13608, 11419, 14312, 1573, -53>>, <<7568, 12289, 2598, 1573, -53>>,
                 <<11011, 2224, 7261, 1572, -53>>, <<9681, 14050, 11915, 1571, -53>>, <<6313, 15056, 178, 1571, -53>>,
                 <<4258, 5299, 4818, 1570, -53>>, <<7475, 1220, 9450, 1569, -53>>>>[k]
          [] d = 40 ->
               <<<<4153, 2877, 14074, 1568, -53>>, <<15859, 10326, 2306, 1568, -53>>, <<15615, 7242, 6915, 1567, -53>>,
                 <<9828, 10066, 11516, 1566, -53>>, <<5511, 2471, 16110, 1565, -53>>, <<10285, 898, 4312, 1565, -53>>,
                 <<16001, 5405, 8890, 1564, -53>>, <<15116, 16050, 13460, 1563, -53>>, <<697, 123, 1640, 1563, -53>>,
                 <<15571, 6831, 6195, 1562, -53>>, <<4872, 3467, 10743, 1561, -53>>, <<12641, 6470, 15283, 1560, -53>>,
                 <<1611, 15900, 3431, 1560, -53>>, <<658, 15429, 7956, 1559, -53>>, <<6495, 5115, 12474, 1558, -53>>,
                 <<61, 1401, 600, 1558, -53>>, <<12051, 4343, 5102, 1557, -53>>, <<8231, 14001, 9596, 1556, -53>>,
                 <<4127, 14048, 14083, 1555, -53>>, <<15869, 4541, 2179, 1555, -53>>, <<11040, 1924, 6651, 1554, -53>>,
                 <<6981, 6254, 11115, 1553, -53>>, <<5256, 1205, 15572, 1552, -53>>, <<8030, 3219, 3637, 1552, -53>>,
                 <<1691, 12355, 8078, 1551, -53>>, <<5998, 12286, 12512, 1550, -53>>, <<8546, 3071, 555, 1550, -53>>,
                 <<13919, 1152, 4974, 1549, -53>>, <<10917, 6588, 9385, 1548, -53>>, <<5332, 3053, 13789, 1547, -53>>,
                 <<3552, 6989, 1801, 1547, -53>>, <<12572, 2070, 6190, 1546, -53>>>>[k]
          [] d = 41 ->
               <<<<7224, 4740, 10571, 1545, -53>>, <<12085, 15056, 14944, 1544, -53>>, <<3188, 310, 2927, 1544, -53>>,
                 <<6321, 9711, 7285, 1543, -53>>, <<15098, 10550, 11636, 1542, -53>>, <<7355, 2887, 15980, 1541, -53>>,
                 <<10681, 3163, 3932, 1541, -53>>, <<4108, 11438, 8260, 1540, -53>>, <<40, 11386, 12581, 1539, -53>>,
                 <<11481, 3065, 511, 1539, -53>>, <<2879, 2920, 4817, 1538, -53>>, <<4820, 11008, 9115, 1537, -53>>,
                 <<15718, 11004, 13406, 1536, -53>>, <<1821, 2969, 1306, 1536, -53>>, <<11892, 3343, 5582, 1535, -53>>,
                 <<13372, 12187, 9850, 1534, -53>>, <<7071, 13176, 14111, 1533, -53>>, <<10775, 6368, 1981, 1533, -53>>,
                 <<10102, 8207, 6227, 1532, -53>>, <<7653, 2368, 10466, 1531, -53>>, <<6620, 5294, 14697, 1530, -53>>,
                 <<10794, 660, 2537, 1530, -53>>, <<8180, 4910, 6753, 1529, -53>>, <<3757, 1719, 10962, 1528, -53>>,
                 <<3104, 7530, 15163, 1527, -53>>, <<12395, 6018, 2973, 1527, -53>>, <<5627, 13628, 7159, 1526, -53>>,
                 <<6545, 14034, 11338, 1525, -53>>, <<6723, 7296, 15510, 1524, -53>>, <<14708, 9857, 3290, 1524, -53>>,
                 <<6877, 5394, 7447, 1523, -53>>, <<9348, 10349, 11596, 1522, -53>>>>[k]
          [] d = 42 ->
               <<<<16066, 8398, 15738, 1521, -53>>, <<5187, 15986, 3488, 1521, -53>>, <<4606, 403, 7616, 1520, -53>>,
                 <<10046, 10861, 11735, 1519, -53>>, <<1439, 14653, 15847, 1518, -53>>, <<8454, 11837, 3568, 1518, -53>>,
                 <<12207, 2474, 7666, 1517, -53>>, <<10784, 3008, 11756, 1516, -53>>, <<2863, 13499, 15838, 1515, -53>>,
                 <<4096, 1238, 3530, 1515, -53>>, <<14341, 15437, 7597, 1514, -53>>, <<1278, 7006, 11658, 1513, -53>>,
                 <<15097, 8770, 15711, 1512, -53>>, <<8272, 4408, 3373, 1512, -53>>, <<15786, 10362, 7411, 1511, -53>>,
                 <<7676, 10310, 11442, 1510, -53>>, <<3716, 4311, 15466, 1509, -53>>, <<7889, 8809, 3098, 1509, -53>>,
                 <<8376, 7481, 7107, 1508, -53>>, <<10333, 387, 11109, 1507, -53>>, <<3120, 3972, 15103, 1506, -53>>,
                 <<9447, 1911, 2706, 1506, -53>>, <<3463, 10650, 6685, 1505, -53>>, <<9054, 13864, 10657, 1504, -53>>,
                 <<1538, 11615, 14622, 1503, -53>>, <<5973, 3962, 2196, 1503, -53>>, <<15235, 7350, 6146, 1502, -53>>,
                 <<6397, 5457, 10089, 1501, -53>>, <<6273, 14726, 14024, 1500, -53>>, <<9491, 2450, 1569, 1500, -53>>,
                 <<11263, 1458, 5490, 1499, -53>>, <<7388, 11811, 9403, 1498, -53>>>>[k]
          [] d = 43 ->
               <<<<10627, 801, 13310, 1497, -53>>, <<1560, 1258, 825, 1497, -53>>, <<10504, 13241, 4716, 1496, -53>>,
                 <<2817, 4045, 8601, 1495, -53>>, <<9978, 6497, 12478, 1494, -53>>, <<14900, 4275, 16348, 1493, -53>>,
                 <<1071, 13825, 3826, 1493, -53>>, <<1716, 2438, 7682, 1492, -53>>, <<1489, 2944, 11530, 1491, -53>>,
                 <<2010, 15404, 15370, 1490, -53>>, <<5476, 7111, 2820, 1490, -53>>, <<14667, 10894, 6646, 1489, -53>>,
                 <<175, 10432, 10465, 1488, -53>>, <<15091, 5783, 14277, 1487, -53>>, <<14781, 13395, 1697, 1487, -53>>,
                 <<4343, 561, 5495, 1486, -53>>, <<5837, 109, 9285, 1485, -53>>, <<9134, 12101, 13067, 1484, -53>>,
                 <<4682, 3831, 459, 1484, -53>>, <<16279, 8127, 4227, 1483, -53>>, <<2757, 8669, 7988, 1482, -53>>,
                 <<5453, 5516, 11742, 1481, -53>>, <<739, 15115, 15488, 1480, -53>>, <<14720, 4758, 2844, 1480, -53>>,
                 <<8541, 7277, 6576, 1479, -53>>, <<9455, 6348, 10301, 1478, -53>>, <<12527, 2033, 14019, 1477, -53>>,
                 <<13398, 10778, 1345, 1477, -53>>, <<8278, 16261, 5048, 1476, -53>>, <<10343, 2159, 8745, 1475, -53>>,
                 <<573, 1303, 12434, 1474, -53>>, <<9671, 13753, 16115, 1473, -53>>>>[k]
          [] d = 44 ->
               <<<<3385, 6805, 3406, 1473, -53>>, <<13566, 13287, 7073, 1472, -53>>, <<7105, 495, 10734, 1471, -53>>,
                 <<619, 1258, 14387, 1470, -53>>, <<11297, 15637, 1648, 1470, -53>>, <<7746, 10928, 5287, 1469, -53>>,
                 <<8303, 3576, 8919, 1468, -53>>, <<15487, 10027, 12543, 1467, -53>>, <<16006, 13960, 16160, 1466, -53>>,
                 <<13526, 15437, 3386, 1466, -53>>, <<12282, 14520, 6989, 1465, -53>>, <<694, 11272, 10585, 1464, -53>>,
                 <<524, 5754, 14174, 1463, -53>>, <<1332, 14413, 1371, 1463, -53>>, <<9637, 4543, 4946, 1462, -53>>,
                 <<16136, 8975, 8513, 1461, -53>>, <<12102, 11388, 12073, 1460, -53>>, <<5758, 11844, 15626, 1459, -53>>,
                 <<5895, 10405, 2788, 1459, -53>>, <<5488, 7134, 6327, 1458, -53>>, <<14468, 2093, 9859, 1457, -53>>,
                 <<10559, 11730, 13383, 1456, -53>>, <<4825, 3339, 517, 1456, -53>>, <<8896, 9750, 4027, 1455, -53>>,
                 <<2200, 14643, 7530, 1454, -53>>, <<13884, 1695, 11027, 1453, -53>>, <<8123, 3739, 14516, 1452, -53>>,
                 <<15198, 4452, 1614, 1452, -53>>, <<417, 3899, 5089, 1451, -53>>, <<11570, 2140, 8557, 1450, -53>>,
                 <<15098, 15624, 12017, 1449, -53>>, <<10772, 11646, 15471, 1448, -53>>>>[k]
          [] d = 45 ->
               <<<<15309, 6652, 2534, 1448, -53>>, <<13223, 706, 5974, 1447, -53>>, <<5980, 10255, 9406, 1446, -53>>,
                 <<11985, 2593, 12832, 1445, -53>>, <<1062, 10553, 16250, 1444, -53>>, <<9130, 1428, 3278, 1444, -53>>,
                 <<7132, 8051, 6682, 1443, -53>>, <<15731, 14100, 10079, 1442, -53>>, <<6995, 3256, 13470, 1441, -53>>,
                 <<2707, 8349, 469, 1441, -53>>, <<8828, 13058, 3845, 1440, -53>>, <<15494, 1063, 7215, 1439, -53>>,
                 <<13404, 5196, 10577, 1438, -53>>, <<10199, 9136, 13932, 1437, -53>>, <<14079, 12946, 896, 1437, -53>>,
                 <<1041, 307, 4238, 1436, -53>>, <<13170, 4048, 7572, 1435, -53>>, <<11195, 7851, 10899, 1434, -53>>,
                 <<5556, 11779, 14219, 1433, -53>>, <<7247, 15895, 1148, 1433, -53>>, <<11439, 3879, 4455, 1432, -53>>,
                 <<13862, 8563, 7754, 1431, -53>>, <<10801, 13627, 11046, 1430, -53>>, <<15482, 2750, 14332, 1429, -53>>,
                 <<8924, 8765, 1226, 1429, -53>>, <<5463, 15351, 4497, 1428, -53>>, <<3616, 6188, 7762, 1427, -53>>,
                 <<2447, 14108, 11019, 1426, -53>>, <<1582, 6407, 14270, 1425, -53>>, <<1202, 15917, 1129, 1425, -53>>,
                 <<2038, 9934, 4366, 1424, -53>>, <<5380, 4906, 7596, 1423, -53>>>>[k]
          [] d = 46 ->
               <<<<13073, 897, 10819, 1422, -53>>, <<11127, 14356, 14034, 1421, -53>>, <<2494, 12579, 859, 1421, -53>>,
                 <<7064, 12013, 4061, 1420, -53>>, <<12507, 12723, 7256, 1419, -53>>, <<7052, 14774, 10444, 1418, -53>>,
                 <<12243, 1845, 13626, 1417, -53>>, <<1029, 6770, 416, 1417, -53>>, <<12443, 13227, 3583, 1416, -53>>,
                 <<4151, 4899, 6744, 1415, -53>>, <<16290, 14616, 9897, 1414, -53>>, <<7628, 9677, 13044, 1413, -53>>,
                 <<3020, 6529, 16184, 1412, -53>>, <<11487, 5236, 2933, 1412, -53>>, <<9831, 5864, 6059, 1411, -53>>,
                 <<8172, 8477, 9178, 1410, -53>>, <<797, 13140, 12290, 1409, -53>>, <<15307, 3532, 15396, 1408, -53>>,
                 <<14318, 12488, 2110, 1408, -53>>, <<10147, 7304, 5202, 1407, -53>>, <<15655, 4428, 8287, 1406, -53>>,
                 <<11487, 3926, 11365, 1405, -53>>, <<11603, 5862, 14436, 1404, -53>>, <<14122, 10301, 1116, 1404, -53>>,
                 <<1330, 925, 4174, 1403, -53>>, <<5212, 10565, 7224, 1402, -53>>, <<9142, 6519, 10268, 1401, -53>>,
                 <<13430, 5236, 13305, 1400, -53>>, <<2542, 6782, 16335, 1399, -53>>, <<10645, 11220, 2974, 1399, -53>>,
                 <<6915, 2233, 5991, 1398, -53>>, <<10221, 12653, 9000, 1397, -53>>>>[k]
          [] d = 47 ->
               <<<<7211, 9778, 12003, 1396, -53>>, <<1463, 10057, 14999, 1395, -53>>, <<13476, 13554, 1604, 1395, -53>>,
                 <<15146, 3952, 4587, 1394, -53>>, <<11679, 14084, 7562, 1393, -53>>, <<8823, 11247, 10531, 1392, -53>>,
                 <<12867, 11890, 13493, 1391, -53>>, <<14259, 16079, 64, 1391, -53>>, <<3991, 7496, 3013, 1390, -53>>,
                 <<6361, 2589, 5955, 1389, -53>>, <<13440, 1424, 8890, 1388, -53>>, <<1460, 4068, 11818, 1387, -53>>,
                 <<12724, 10584, 14739, 1386, -53>>, <<8159, 4656, 1270, 1386, -53>>, <<14766, 2732, 4178, 1385, -53>>,
                 <<10934, 4879, 7079, 1384, -53>>, <<8359, 11162, 9973, 1383, -53>>, <<2892, 5263, 12861, 1382, -53>>,
                 <<7305, 3631, 15742, 1381, -53>>, <<2143, 6333, 2232, 1381, -53>>, <<1256, 13434, 5099, 1380, -53>>,
                 <<2644, 8616, 7960, 1379, -53>>, <<4849, 8329, 10814, 1378, -53>>, <<6949, 12639, 13661, 1377, -53>>,
                 <<8554, 5228, 118, 1377, -53>>, <<9817, 2546, 2952, 1376, -53>>, <<11424, 4659, 5779, 1375, -53>>,
                 <<14594, 11633, 8599, 1374, -53>>, <<4702, 7151, 11413, 1373, -53>>, <<420, 7662, 14220, 1372, -53>>,
                 <<4577, 13232, 636, 1372, -53>>, <<4150, 7544, 3430, 1371, -53>>>>[k]
          [] d = 48 ->
               <<<<3032, 7048, 6217, 1370, -53>>, <<5651, 11810, 8997, 1369, -53>>, <<587, 5513, 11771, 1368, -53>>,
                 <<9715, 4606, 14538, 1367, -53>>, <<6297, 9157, 914, 1367, -53>>, <<13275, 2847, 3668, 1366, -53>>,
                 <<4974, 2128, 6415, 1365, -53>>, <<5400, 7065, 9155, 1364, -53>>, <<6325, 1341, 11889, 1363, -53>>,
                 <<51, 1407, 14616, 1362, -53>>, <<12177, 7328, 952, 1362, -53>>, <<3300, 2789, 3666, 1361, -53>>,
                 <<79, 4239, 6373, 1360, -53>>, <<13325, 11744, 9073, 1359, -53>>, <<5218, 8989, 11767, 1358, -53>>,
                 <<4009, 12423, 14454, 1357, -53>>, <<5711, 5729, 751, 1357, -53>>, <<6859, 5358, 3425, 1356, -53>>,
                 <<4524, 11377, 6092, 1355, -53>>, <<12680, 7468, 8753, 1354, -53>>, <<13068, 10083, 11407, 1353, -53>>,
                 <<4340, 2905, 14055, 1352, -53>>, <<2052, 2384, 312, 1352, -53>>, <<5909, 8587, 2946, 1351, -53>>,
                 <<16141, 5197, 5574, 1350, -53>>, <<733, 8667, 8195, 1349, -53>>, <<10118, 2677, 10810, 1348, -53>>,
                 <<13337, 3680, 13418, 1347, -53>>, <<12716, 11743, 16019, 1346, -53>>, <<11112, 10549, 2230, 1346, -53>>,
                 <<11906, 165, 4819, 1345, -53>>, <<2615, 13427, 7400, 1344, -53>>>>[k]
          [] d = 49 ->
               <<<<4052, 1249, 9976, 1343, -53>>, <<4783, 12851, 12544, 1342, -53>>, <<10279, 15532, 15106, 1341, -53>>,
                 <<10154, 9360, 1278, 1341, -53>>, <<10926, 10786, 3827, 1340, -53>>, <<3249, 3494, 6370, 1339, -53>>,
                 <<11071, 3934, 8906, 1338, -53>>, <<9705, 12175, 11435, 1337, -53>>, <<7757, 11900, 13958, 1336, -53>>,
                 <<14348, 3176, 91, 1336, -53>>, <<6358, 2456, 2601, 1335, -53>>, <<10335, 9806, 5104, 1334, -53>>,
                 <<4194, 8911, 7601, 1333, -53>>, <<15524, 16221, 10091, 1332, -53>>, <<6896, 15422, 12575, 1331, -53>>,
                 <<6934, 6580, 15053, 1330, -53>>, <<12013, 6147, 1140, 1330, -53>>, <<2647, 14192, 3604, 1329, -53>>,
                 <<9009, 14397, 6062, 1328, -53>>, <<12649, 6831, 8514, 1327, -53>>, <<12009, 7946, 10959, 1326, -53>>,
                 <<6052, 1426, 13398, 1325, -53>>, <<10644, 3722, 15830, 1324, -53>>, <<9390, 14903, 1871, 1324, -53>>,
                 <<2804, 2269, 4291, 1323, -53>>, <<8296, 15039, 6703, 1322, -53>>, <<11019, 4130, 9110, 1321, -53>>,
                 <<13032, 2378, 11510, 1320, -53>>, <<520, 9852, 13903, 1319, -53>>, <<9333, 10234, 16290, 1318, -53>>,
                 <<10302, 3594, 2287, 1318, -53>>, <<7537, 6384, 4661, 1317, -53>>>>[k]
          [] d = 50 ->
               <<<<5661, 2288, 7029, 1316, -53>>, <<9812, 7758, 9390, 1315, -53>>, <<9254, 6479, 11745, 1314, -53>>,
                 <<10147, 14903, 14093, 1313, -53>>, <<2780, 331, 52, 1313, -53>>, <<10721, 11982, 2387, 1312, -53>>,
                 <<8898, 774, 4717, 1311, -53>>, <<5514, 15927, 7039, 1310, -53>>, <<9286, 8357, 9356, 1309, -53>>,
                 <<13058, 10901, 11666, 1308, -53>>, <<10178, 7244, 13970, 1307, -53>>, <<10892, 13838, 16267, 1306, -53>>,
                 <<9571, 14368, 2174, 1306, -53>>, <<1093, 8903, 4459, 1305, -53>>, <<13612, 13894, 6737, 1304, -53>>,
                 <<10257, 13028, 9009, 1303, -53>>, <<3812, 6373, 11275, 1302, -53>>, <<7572, 10381, 13534, 1301, -53>>,
                 <<2573, 8738, 15787, 1300, -53>>, <<3117, 1512, 1650, 1300, -53>>, <<7639, 5156, 3890, 1299, -53>>,
                 <<15071, 3355, 6124, 1298, -53>>, <<8473, 12563, 8351, 1297, -53>>, <<4176, 80, 10573, 1296, -53>>,
                 <<2630, 15127, 12787, 1295, -53>>, <<4792, 8621, 14996, 1294, -53>>, <<12126, 13399, 814, 1294, -53>>,
                 <<10208, 13147, 3010, 1293, -53>>, <<1510, 7934, 5200, 1292, -53>>, <<5388, 14212, 7383, 1291, -53>>,
                 <<8929, 15667, 9560, 1290, -53>>, <<16115, 12368, 11731, 1289, -53>>>>[k]
          [] d = 51 ->
               <<<<15038, 4385, 13896, 1288, -53>>, <<10682, 8171, 16054, 1287, -53>>, <<8529, 7411, 1822, 1287, -53>>,
                 <<14563, 2174, 3968, 1286, -53>>, <<2504, 8915, 6107, 1285, -53>>, <<12104, 11317, 8240, 1284, -53>>,
                 <<1697, 9452, 10367, 1283, -53>>, <<12039, 3387, 12488, 1282, -53>>, <<2463, 9578, 14602, 1281, -53>>,
                 <<14721, 11708, 326, 1281, -53>>, <<9148, 9849, 2428, 1280, -53>>, <<12106, 4069, 4524, 1279, -53>>,
                 <<1311, 10823, 6613, 1278, -53>>, <<4126, 13795, 8696, 1277, -53>>, <<15641, 13055, 10773, 1276, -53>>,
                 <<15063, 8674, 12844, 1275, -53>>, <<14863, 721, 14909, 1274, -53>>, <<11621, 5650, 583, 1274, -53>>,
                 <<2419, 7147, 2635, 1273, -53>>, <<1215, 5281, 4681, 1272, -53>>, <<6078, 122, 6721, 1271, -53>>,
                 <<15577, 8124, 8754, 1270, -53>>, <<12384, 12974, 10781, 1269, -53>>, <<12440, 14741, 12802, 1268, -53>>,
                 <<15795, 13495, 14817, 1267, -53>>, <<6606, 9307, 442, 1267, -53>>, <<2294, 2246, 2445, 1266, -53>>,
                 <<4390, 8766, 4441, 1265, -53>>, <<14914, 12553, 6431, 1264, -53>>, <<3612, 13679, 8415, 1263, -53>>,
                 <<6262, 12212, 10393, 1262, -53>>, <<9976, 8223, 12365, 1261, -53>>>>[k]
          [] d = 52 ->
               <<<<2361, 1783, 14331, 1260, -53>>, <<4281, 9345, 16290, 1259, -53>>, <<4325, 14596, 1859, 1259, -53>>,
                 <<7954, 1222, 3807, 1258, -53>>, <<4736, 2062, 5748, 1257, -53>>, <<1115, 802, 7683, 1256, -53>>,
                 <<4019, 13896, 9611, 1255, -53>>, <<4486, 8647, 11534, 1254, -53>>, <<10425, 1509, 13451, 1253, -53>>,
                 <<13849, 8937, 15361, 1252, -53>>, <<7258, 14618, 881, 1252, -53>>, <<26, 2238, 2780, 1251, -53>>,
                 <<2015, 4635, 4672, 1250, -53>>, <<7184, 5496, 6558, 1249, -53>>, <<9987, 4892, 8438, 1248, -53>>,
                 <<5355, 2894, 10312, 1247, -53>>, <<5098, 15956, 12179, 1246, -53>>, <<5122, 11381, 14041, 1245, -53>>,
                 <<1819, 5624, 15897, 1244, -53>>, <<8452, 15139, 1362, 1244, -53>>, <<5999, 7230, 3206, 1243, -53>>,
                 <<8688, 14735, 5043, 1242, -53>>, <<14851, 4957, 6875, 1241, -53>>, <<6919, 10736, 8700, 1240, -53>>,
                 <<569, 15758, 10519, 1239, -53>>, <<11969, 3709, 12333, 1238, -53>>, <<8609, 7430, 14140, 1237, -53>>,
                 <<7619, 10607, 15941, 1236, -53>>, <<10226, 13311, 1352, 1236, -53>>, <<1752, 15614, 3141, 1235, -53>>,
                 <<770, 1202, 4925, 1234, -53>>, <<9949, 2914, 6702, 1233, -53>>>>[k]
          [] d = 53 ->
               <<<<16055, 4438, 8473, 1232, -53>>, <<6332, 5846, 10238, 1231, -53>>, <<1275, 7208, 11997, 1230, -53>>,
                 <<5473, 8595, 13750, 1229, -53>>, <<7608, 10079, 15497, 1228, -53>>, <<13227, 11731, 854, 1228, -53>>,
                 <<11972, 13623, 2589, 1227, -53>>, <<10343, 15826, 4318, 1226, -53>>, <<15322, 2027, 6042, 1225, -53>>,
                 <<1597, 5067, 7759, 1224, -53>>, <<9873, 8631, 9470, 1223, -53>>, <<15790, 12792, 11175, 1222, -53>>,
                 <<11852, 1238, 12875, 1221, -53>>, <<7424, 6808, 14568, 1220, -53>>, <<12341, 13189, 16255, 1219, -53>>,
                 <<4152, 4070, 1553, 1219, -53>>, <<10026, 12289, 3228, 1218, -53>>, <<8459, 5151, 4898, 1217, -53>>,
                 <<11192, 15495, 6561, 1216, -53>>, <<14046, 10625, 8219, 1215, -53>>, <<13324, 6997, 9871, 1214, -53>>,
                 <<5801, 4683, 11517, 1213, -53>>, <<5104, 3754, 13157, 1212, -53>>, <<8952, 4282, 14791, 1211, -53>>,
                 <<15538, 6339, 35, 1211, -53>>, <<7136, 9998, 1657, 1210, -53>>, <<15651, 15329, 3273, 1209, -53>>,
                 <<7918, 6022, 4884, 1208, -53>>, <<395, 14916, 6488, 1207, -53>>, <<10013, 9314, 8087, 1206, -53>>,
                 <<5018, 5674, 9680, 1205, -53>>, <<3279, 4067, 11267, 1204, -53>>>>[k]
          [] d = 54 ->
               <<<<6750, 4565, 12848, 1203, -53>>, <<1471, 7241, 14423, 1202, -53>>, <<6714, 12166, 15992, 1201, -53>>,
                 <<9458, 3029, 1172, 1201, -53>>, <<13529, 12670, 2729, 1200, -53>>, <<6838, 8394, 4281, 1199, -53>>,
                 <<10530, 6656, 5827, 1198, -53>>, <<13449, 7529, 7367, 1197, -53>>, <<4910, 11086, 8901, 1196, -53>>,
                 <<7453, 1014, 10430, 1195, -53>>, <<11322, 10154, 11952, 1194, -53>>, <<7228, 5811, 13469, 1193, -53>>,
                 <<2725, 4441, 14980, 1192, -53>>, <<5835, 6116, 101, 1192, -53>>, <<8662, 10909, 1600, 1191, -53>>,
                 <<3769, 2509, 3094, 1190, -53>>, <<573, 13756, 4581, 1189, -53>>, <<8946, 11954, 6063, 1188, -53>>,
                 <<6463, 13561, 7539, 1187, -53>>, <<3926, 2265, 9010, 1186, -53>>, <<12597, 10906, 10474, 1185, -53>>,
                 <<11435, 6790, 11933, 1184, -53>>, <<12630, 6373, 13386, 1183, -53>>, <<12442, 9728, 14833, 1182, -53>>,
                 <<7599, 544, 16275, 1181, -53>>, <<11671, 11661, 1326, 1181, -53>>, <<5918, 10385, 2756, 1180, -53>>,
                 <<4831, 13172, 4180, 1179, -53>>, <<6974, 3711, 5599, 1178, -53>>, <<11370, 14843, 7011, 1177, -53>>,
                 <<1118, 13874, 8418, 1176, -53>>, <<8926, 875, 9820, 1175, -53>>>>[k]
          [] d = 55 ->
               <<<<2425, 8689, 11215, 1174, -53>>, <<15238, 4619, 12605, 1173, -53>>, <<15911, 5124, 13989, 1172, -53>>,
                 <<6214, 10277, 15367, 1171, -53>>, <<4757, 3766, 356, 1171, -53>>, <<14223, 2048, 1723, 1170, -53>>,
                 <<4982, 5198, 3084, 1169, -53>>, <<13395, 13287, 4439, 1168, -53>>, <<10743, 10006, 5789, 1167, -53>>,
                 <<1531, 11812, 7133, 1166, -53>>, <<7098, 2393, 8472, 1165, -53>>, <<89, 14592, 9804, 1164, -53>>,
                 <<2756, 15713, 11131, 1163, -53>>, <<5029, 5830, 12453, 1162, -53>>, <<13682, 1400, 13769, 1161, -53>>,
                 <<3172, 2498, 15079, 1160, -53>>, <<13940, 9195, 16383, 1159, -53>>, <<4966, 5183, 1298, 1159, -53>>,
                 <<1210, 6918, 2591, 1158, -53>>, <<11703, 14473, 3878, 1157, -53>>, <<13162, 11539, 5160, 1156, -53>>,
                 <<15515, 14573, 6436, 1155, -53>>, <<12761, 7265, 7707, 1154, -53>>, <<15732, 6072, 8972, 1153, -53>>,
                 <<2940, 11069, 10231, 1152, -53>>, <<2498, 5944, 11485, 1151, -53>>, <<10204, 7155, 12733, 1150, -53>>,
                 <<5912, 14777, 13975, 1149, -53>>, <<2700, 12499, 15212, 1148, -53>>, <<14087, 394, 60, 1148, -53>>,
                 <<4893, 11306, 1285, 1147, -53>>, <<5916, 12539, 2505, 1146, -53>>>>[k]
          [] d = 56 ->
               <<<<15634, 4167, 3720, 1145, -53>>, <<206, 2650, 4929, 1144, -53>>, <<8152, 8059, 6132, 1143, -53>>,
                 <<6520, 4086, 7330, 1142, -53>>, <<11955, 7188, 8522, 1141, -53>>, <<8779, 1056, 9709, 1140, -53>>,
                 <<14522, 2147, 10890, 1139, -53>>, <<14399, 10536, 12065, 1138, -53>>, <<10441, 9913, 13235, 1137, -53>>,
                 <<5131, 352, 14400, 1136, -53>>, <<1393, 14695, 15558, 1135, -53>>, <<2590, 3864, 328, 1135, -53>>,
                 <<12530, 701, 1476, 1134, -53>>, <<2698, 5282, 2618, 1133, -53>>, <<10547, 1295, 3755, 1132, -53>>,
                 <<8443, 5200, 4886, 1131, -53>>, <<1961, 687, 6012, 1130, -53>>, <<13493, 4213, 7132, 1129, -53>>,
                 <<344, 15855, 8246, 1128, -53>>, <<2170, 2917, 9356, 1127, -53>>, <<9921, 14626, 10459, 1126, -53>>,
                 <<14983, 1905, 11558, 1125, -53>>, <<9180, 13981, 12650, 1124, -53>>, <<1158, 1776, 13738, 1123, -53>>,
                 <<4, 14516, 14819, 1122, -53>>, <<15238, 3123, 15896, 1121, -53>>, <<7667, 442, 583, 1121, -53>>,
                 <<4072, 6546, 1648, 1120, -53>>, <<15284, 5125, 2708, 1119, -53>>, <<3420, 12640, 3762, 1118, -53>>,
                 <<12949, 12779, 4811, 1117, -53>>, <<6860, 5619, 5855, 1116, -53>>>>[k]
          [] d = 57 ->
               <<<<14110, 7617, 6893, 1115, -53>>, <<14937, 2465, 7926, 1114, -53>>, <<6403, 6622, 8953, 1113, -53>>,
                 <<2381, 3778, 9975, 1112, -53>>, <<797, 10392, 10991, 1111, -53>>, <<10, 10155, 12002, 1110, -53>>,
                 <<15194, 3141, 13008, 1109, -53>>, <<12804, 5811, 14008, 1108, -53>>, <<8882, 1855, 15003, 1107, -53>>,
                 <<3510, 7732, 15992, 1106, -53>>, <<13594, 7132, 592, 1106, -53>>, <<7312, 132, 1571, 1105, -53>>,
                 <<2431, 3190, 2544, 1104, -53>>, <<755, 16381, 3511, 1103, -53>>, <<4527, 7012, 4474, 1102, -53>>,
                 <<30, 7927, 5431, 1101, -53>>, <<6747, 2816, 6383, 1100, -53>>, <<11818, 8139, 7329, 1099, -53>>,
                 <<2813, 7588, 8270, 1098, -53>>, <<502, 1237, 9206, 1097, -53>>, <<9691, 5545, 10136, 1096, -53>>,
                 <<2850, 4205, 11061, 1095, -53>>, <<2028, 13675, 11980, 1094, -53>>, <<13313, 1262, 12895, 1093, -53>>,
                 <<10455, 16195, 13803, 1092, -53>>, <<396, 9397, 14707, 1091, -53>>, <<6885, 13710, 15605, 1090, -53>>,
                 <<4949, 12827, 114, 1090, -53>>, <<2804, 6823, 1002, 1089, -53>>, <<9090, 12157, 1884, 1088, -53>>,
                 <<106, 12522, 2761, 1087, -53>>, <<1722, 7992, 3633, 1086, -53>>>>[k]
          [] d = 58 ->
               <<<<7466, 15027, 4499, 1085, -53>>, <<11291, 935, 5361, 1084, -53>>, <<7566, 14944, 6216, 1083, -53>>,
                 <<7471, 7977, 7067, 1082, -53>>, <<6225, 12878, 7912, 1081, -53>>, <<15845, 13338, 8752, 1080, -53>>,
                 <<16008, 9434, 9587, 1079, -53>>, <<3195, 1242, 10417, 1078, -53>>, <<7069, 5220, 11241, 1077, -53>>,
                 <<8569, 5061, 12060, 1076, -53>>, <<5430, 841, 12874, 1075, -53>>, <<12195, 9019, 13682, 1074, -53>>,
                 <<11058, 13288, 14485, 1073, -53>>, <<1011, 13724, 15283, 1072, -53>>, <<14235, 10401, 16076, 1071, -53>>,
                 <<1410, 3398, 480, 1071, -53>>, <<11933, 9172, 1262, 1070, -53>>, <<13701, 11417, 2039, 1069, -53>>,
                 <<7796, 10209, 2811, 1068, -53>>, <<12095, 5623, 3578, 1067, -53>>, <<12131, 14120, 4339, 1066, -53>>,
                 <<10229, 3008, 5096, 1065, -53>>, <<9131, 5131, 5847, 1064, -53>>, <<11998, 4181, 6593, 1063, -53>>,
                 <<6014, 235, 7334, 1062, -53>>, <<11549, 9752, 8069, 1061, -53>>, <<238, 42, 8800, 1060, -53>>,
                 <<9656, 3947, 9525, 1059, -53>>, <<12261, 5161, 10245, 1058, -53>>, <<13694, 3760, 10960, 1057, -53>>,
                 <<3616, 16205, 11669, 1056, -53>>, <<4875, 9803, 12374, 1055, -53>>>>[k]
          [] d = 59 ->
               <<<<7957, 1015, 13074, 1054, -53>>, <<3761, 6302, 13768, 1053, -53>>, <<16367, 9355, 14457, 1052, -53>>,
                 <<4724, 10253, 15141, 1051, -53>>, <<10115, 9070, 15820, 1050, -53>>, <<8697, 5884, 110, 1050, -53>>,
                 <<9798, 771, 779, 1049, -53>>, <<6776, 10192, 1442, 1048, -53>>, <<9781, 1455, 2101, 1047, -53>>,
                 <<12987, 7405, 2754, 1046, -53>>, <<10971, 11735, 3402, 1045, -53>>, <<15107, 14521, 4045, 1044, -53>>,
                 <<4406, 15841, 4683, 1043, -53>>, <<7434, 15770, 5316, 1042, -53>>, <<4015, 14386, 5944, 1041, -53>>,
                 <<7147, 11765, 6567, 1040, -53>>, <<13846, 7984, 7185, 1039, -53>>, <<5151, 3121, 7798, 1038, -53>>,
                 <<11659, 13635, 8405, 1037, -53>>, <<15214, 6836, 9008, 1036, -53>>, <<14454, 15569, 9605, 1035, -53>>,
                 <<8418, 7143, 10198, 1034, -53>>, <<12929, 14402, 10785, 1033, -53>>, <<11449, 4656, 11368, 1032, -53>>,
                 <<4226, 10750, 11945, 1031, -53>>, <<8290, 16376, 12517, 1030, -53>>, <<8308, 5228, 13085, 1029, -53>>,
                 <<5734, 10151, 13647, 1028, -53>>, <<2415, 14838, 14204, 1027, -53>>, <<606, 2982, 14757, 1026, -53>>,
                 <<2962, 7428, 15304, 1025, -53>>, <<12531, 11869, 15846, 1024, -53>>>>[k]
          [] d = 60 ->
               <<<<1, 0, 0, 1024, -53>>, <<3971, 9328, 1064, 2046, -54>>, <<12704, 2726, 2119, 2044, -54>>,
                 <<2730, 13118, 3163, 2042, -54>>, <<517, 7889, 4198, 2040, -54>>, <<568, 3578, 5223, 2038, -54>>,
                 <<14565, 339, 6238, 2036, -54>>, <<5822, 14713, 7242, 2034, -54>>, <<3991, 14085, 8237, 2032, -54>>,
                 <<6747, 14994, 9222, 2030, -54>>, <<12548, 1211, 10198, 2028, -54>>, <<4265, 5660, 11163, 2026, -54>>,
                 <<14714, 12110, 12118, 2024, -54>>, <<11952, 4334, 13064, 2022, -54>>, <<13989, 15254, 13999, 2020, -54>>,
                 <<6843, 12258, 14925, 2018, -54>>, <<10094, 11884, 15841, 2016, -54>>, <<11342, 14288, 363, 2015, -54>>,
                 <<15343, 3241, 1260, 2013, -54>>, <<11267, 11667, 2146, 2011, -54>>, <<5448, 6953, 3023, 2009, -54>>,
                 <<4996, 5638, 3890, 2007, -54>>, <<1426, 7878, 4747, 2005, -54>>, <<3420, 13828, 5594, 2003, -54>>,
                 <<4046, 7260, 6432, 2001, -54>>, <<13549, 4713, 7260, 1999, -54>>, <<10172, 6344, 8078, 1997, -54>>,
                 <<5713, 12308, 8886, 1995, -54>>, <<12748, 6376, 9685, 1993, -54>>, <<11852, 5089, 10474, 1991, -54>>,
                 <<771, 8603, 11253, 1989, -54>>, <<10791, 688, 12023, 1987, -54>>>>[k]
          [] d = 61 ->
               <<<<8430, 14270, 12782, 1985, -54>>, <<10138, 352, 13533, 1983, -54>>, <<374, 8243, 14273, 1981, -54>>,
                 <<13507, 5329, 15004, 1979, -54>>, <<2770, 8153, 15725, 1977, -54>>, <<4085, 485, 53, 1976, -54>>,
                 <<4984, 15250, 754, 1974, -54>>, <<10159, 3452, 1447, 1972, -54>>, <<8689, 14400, 2129, 1970, -54>>,
                 <<6793, 15482, 2802, 1968, -54>>, <<11468, 6854, 3466, 1966, -54>>, <<14091, 5057, 4120, 1964, -54>>,
                 <<6796, 10248, 4764, 1962, -54>>, <<15259, 6198, 5399, 1960, -54>>, <<380, 9450, 6024, 1958, -54>>,
                 <<5747, 3774, 6640, 1956, -54>>, <<10161, 5712, 7246, 1954, -54>>, <<9581, 15421, 7842, 1952, -54>>,
                 <<726, 290, 8430, 1950, -54>>, <<13832, 9626, 9007, 1948, -54>>, <<14370, 10820, 9575, 1946, -54>>,
                 <<1336, 4029, 10134, 1944, -54>>, <<7242, 5792, 10683, 1942, -54>>, <<16214, 16267, 11222, 1940, -54>>,
                 <<13136, 2844, 11753, 1938, -54>>, <<19, 14832, 12273, 1936, -54>>, <<12412, 3234, 12785, 1934, -54>>,
                 <<4682, 978, 13287, 1932, -54>>, <<13882, 8219, 13779, 1930, -54>>, <<12279, 8732, 14262, 1928, -54>>,
                 <<5650, 2674, 14736, 1926, -54>>, <<534, 6586, 15200, 1924, -54>>>>[k]
          [] d = 62 ->
               <<<<4218, 4241, 15655, 1922, -54>>, <<8344, 12181, 16100, 1920, -54>>, <<5315, 14180, 152, 1919, -54>>,
                 <<4663, 10395, 579, 1917, -54>>, <<275, 984, 997, 1915, -54>>, <<3180, 2488, 1405, 1913, -54>>,
                 <<8754, 15065, 1803, 1911, -54>>, <<13131, 6105, 2193, 1909, -54>>, <<13186, 8534, 2573, 1907, -54>>,
                 <<6527, 6126, 2944, 1905, -54>>, <<7899, 15422, 3305, 1903, -54>>, <<22, 3813, 3658, 1901, -54>>,
                 <<15497, 4223, 4001, 1899, -54>>, <<5753, 429, 4335, 1897, -54>>, <<4883, 8971, 4659, 1895, -54>>,
                 <<14936, 13623, 4974, 1893, -54>>, <<5947, 14545, 5280, 1891, -54>>, <<14208, 11893, 5577, 1889, -54>>,
                 <<11224, 5827, 5865, 1887, -54>>, <<2000, 12889, 6143, 1885, -54>>, <<8652, 468, 6413, 1883, -54>>,
                 <<4887, 1492, 6673, 1881, -54>>, <<14298, 16118, 6923, 1879, -54>>, <<12045, 11738, 7165, 1877, -54>>,
                 <<6802, 4894, 7398, 1875, -54>>, <<7971, 12128, 7621, 1873, -54>>, <<9289, 831, 7836, 1871, -54>>,
                 <<5238, 3930, 8041, 1869, -54>>, <<7398, 5199, 8237, 1867, -54>>, <<11702, 4797, 8424, 1865, -54>>,
                 <<14811, 2883, 8602, 1863, -54>>, <<14100, 16000, 8770, 1861, -54>>>>[k]
          [] d = 63 ->
               <<<<7681, 11539, 8930, 1859, -54>>, <<10776, 6042, 9081, 1857, -54>>, <<6549, 16053, 9222, 1855, -54>>,
                 <<11667, 8962, 9355, 1853, -54>>, <<10751, 1313, 9479, 1851, -54>>, <<5518, 9649, 9593, 1849, -54>>,
                 <<14799, 1360, 9699, 1847, -54>>, <<8990, 9375, 9795, 1845, -54>>, <<8359, 1084, 9883, 1843, -54>>,
                 <<1118, 9415, 9961, 1841, -54>>, <<8973, 1758, 10031, 1839, -54>>, <<5193, 11042, 10091, 1837, -54>>,
                 <<12908, 4657, 10143, 1835, -54>>, <<6819, 15532, 10185, 1833, -54>>, <<11494, 11057, 10219, 1831, -54>>,
                 <<3053, 7777, 10244, 1829, -54>>, <<7491, 5850, 10260, 1827, -54>>, <<2363, 5437, 10267, 1825, -54>>,
                 <<15075, 6696, 10265, 1823, -54>>, <<8222, 9789, 10254, 1821, -54>>, <<10640, 14874, 10234, 1819, -54>>,
                 <<2717, 5728, 10206, 1817, -54>>, <<14706, 15277, 10168, 1815, -54>>, <<12035, 10915, 10122, 1813, -54>>,
                 <<9979, 9185, 10067, 1811, -54>>, <<8146, 10247, 10003, 1809, -54>>, <<6848, 14261, 9930, 1807, -54>>,
                 <<7092, 5003, 9849, 1805, -54>>, <<10602, 15401, 9758, 1803, -54>>, <<3406, 12848, 9659, 1801, -54>>,
                 <<5013, 13887, 9551, 1799, -54>>, <<2866, 2295, 9435, 1797, -54>>>>[k]
          [] d = 64 ->
               <<<<1481, 11000, 9309, 1795, -54>>, <<6083, 7394, 9175, 1793, -54>>, <<6215, 8022, 9032, 1791, -54>>,
                 <<8489, 13044, 8880, 1789, -54>>, <<3841, 6237, 8720, 1787, -54>>, <<288, 4145, 8551, 1785, -54>>,
                 <<6532, 6928, 8373, 1783, -54>>, <<15601, 14747, 8186, 1781, -54>>, <<4817, 11380, 7991, 1779, -54>>,
                 <<1360, 13370, 7787, 1777, -54>>, <<333, 4494, 7575, 1775, -54>>, <<13904, 1296, 7354, 1773, -54>>,
                 <<5793, 3939, 7124, 1771, -54>>, <<5944, 12582, 6885, 1769, -54>>, <<12212, 11002, 6638, 1767, -54>>,
                 <<6769, 15745, 6382, 1765, -54>>, <<5240, 10587, 6118, 1763, -54>>, <<7545, 12073, 5845, 1761, -54>>,
                 <<14304, 3980, 5564, 1759, -54>>, <<10422, 2854, 5274, 1757, -54>>, <<14271, 8855, 4975, 1755, -54>>,
                 <<12137, 5761, 4668, 1753, -54>>, <<7362, 10117, 4352, 1751, -54>>, <<3982, 5700, 4028, 1749, -54>>,
                 <<6714, 9055, 3695, 1747, -54>>, <<4562, 3960, 3354, 1745, -54>>, <<3604, 6960, 3004, 1743, -54>>,
                 <<10598, 1832, 2646, 1741, -54>>, <<199, 5123, 2279, 1739, -54>>, <<13294, 608, 1904, 1737, -54>>,
                 <<9510, 4835, 1520, 1735, -54>>, <<14698, 1580, 1128, 1733, -54>>>>[k]
          [] d = 65 ->
               <<<<6227, 7390, 727, 1731, -54>>, <<11298, 6041, 318, 1729, -54>>, <<8621, 14080, 16284, 1726, -54>>,
                 <<10361, 15284, 15858, 1724, -54>>, <<12967, 9815, 15424, 1722, -54>>, <<13552, 14219, 14981, 1720, -54>>,
                 <<9908, 12274, 14530, 1718, -54>>, <<499, 4142, 14071, 1716, -54>>, <<828, 6368, 13603, 1714, -54>>,
                 <<10696, 2730, 13127, 1712, -54>>, <<14186, 9775, 12642, 1710, -54>>, <<12422, 11281, 12149, 1708, -54>>,
                 <<7202, 7410, 11648, 1706, -54>>, <<989, 14708, 11138, 1704, -54>>, <<13295, 568, 10621, 1702, -54>>,
                 <<15134, 14306, 10094, 1700, -54>>, <<10961, 6932, 9560, 1698, -54>>, <<5893, 11376, 9017, 1696, -54>>,
                 <<5698, 11416, 8466, 1694, -54>>, <<433, 7215, 7907, 1692, -54>>, <<13569, 15318, 7339, 1690, -54>>,
                 <<3712, 3122, 6764, 1688, -54>>, <<12043, 3555, 6180, 1686, -54>>, <<14856, 397, 5588, 1684, -54>>,
                 <<5494, 10195, 4987, 1682, -54>>, <<10726, 342, 4379, 1680, -54>>, <<8809, 3770, 3762, 1678, -54>>,
                 <<11438, 4257, 3137, 1676, -54>>, <<14572, 1966, 2504, 1674, -54>>, <<14816, 13444, 1862, 1672, -54>>,
                 <<9437, 6086, 1213, 1670, -54>>, <<12726, 12822, 555, 1668, -54>>>>[k]
          [] d = 66 ->
               <<<<6865, 1048, 16274, 1665, -54>>, <<7452, 3694, 15600, 1663, -54>>, <<14340, 4539, 14918, 1661, -54>>,
                 <<11658, 3747, 14228, 1659, -54>>, <<562, 1481, 13530, 1657, -54>>, <<15615, 14286, 12823, 1655, -54>>,
                 <<10113, 9560, 12109, 1653, -54>>, <<3535, 3849, 11387, 1651, -54>>, <<15991, 13699, 10656, 1649, -54>>,
                 <<2713, 6508, 9918, 1647, -54>>, <<1480, 15205, 9171, 1645, -54>>, <<1572, 7186, 8417, 1643, -54>>,
                 <<9293, 15382, 7654, 1641, -54>>, <<15192, 7189, 6884, 1639, -54>>, <<10467, 15539, 6105, 1637, -54>>,
                 <<3338, 7827, 5319, 1635, -54>>, <<2653, 600, 4525, 1633, -54>>, <<1522, 10406, 3722, 1631, -54>>,
                 <<10075, 4640, 2912, 1629, -54>>, <<6298, 16235, 2093, 1627, -54>>, <<1592, 12586, 1267, 1625, -54>>,
                 <<7981, 10240, 433, 1623, -54>>, <<5359, 9362, 15975, 1620, -54>>, <<7024, 10115, 15125, 1618, -54>>,
                 <<10508, 12663, 14267, 1616, -54>>, <<13984, 786, 13402, 1614, -54>>, <<16255, 7416, 12528, 1612, -54>>,
                 <<356, 16334, 11646, 1610, -54>>, <<15499, 11317, 10757, 1608, -54>>, <<13217, 8916, 9860, 1606, -54>>,
                 <<11194, 9294, 8955, 1604, -54>>, <<11369, 12615, 8042, 1602, -54>>>>[k]
          [] d = 67 ->
               <<<<16302, 2659, 7122, 1600, -54>>, <<12783, 12359, 6193, 1598, -54>>, <<4621, 9111, 5257, 1596, -54>>,
                 <<12629, 9462, 4313, 1594, -54>>, <<9081, 13578, 3361, 1592, -54>>, <<16031, 5238, 2402, 1590, -54>>,
                 <<7001, 992, 1435, 1588, -54>>, <<5284, 1003, 460, 1586, -54>>, <<2014, 5436, 15861, 1583, -54>>,
                 <<5337, 14455, 14870, 1581, -54>>, <<7631, 11841, 13872, 1579, -54>>, <<1878, 14143, 12866, 1577, -54>>,
                 <<14457, 5140, 11853, 1575, -54>>, <<6822, 1383, 10832, 1573, -54>>, <<6565, 3035, 9803, 1571, -54>>,
                 <<9136, 10261, 8766, 1569, -54>>, <<10596, 6842, 7722, 1567, -54>>, <<7603, 9327, 6670, 1565, -54>>,
                 <<13823, 1496, 5611, 1563, -54>>, <<10764, 16283, 4543, 1561, -54>>, <<13296, 4700, 3469, 1559, -54>>,
                 <<4146, 16065, 2386, 1557, -54>>, <<15784, 1389, 1297, 1555, -54>>, <<15762, 9991, 199, 1553, -54>>,
                 <<5004, 9268, 15478, 1550, -54>>, <<1413, 15768, 14365, 1548, -54>>, <<7122, 13272, 13245, 1546, -54>>,
                 <<8481, 1946, 12118, 1544, -54>>, <<8817, 14723, 10982, 1542, -54>>, <<12070, 2616, 9840, 1540, -54>>,
                 <<6394, 14943, 8689, 1538, -54>>, <<13301, 2716, 7532, 1536, -54>>>>[k]
          [] d = 68 ->
               <<<<5760, 15254, 6366, 1534, -54>>, <<6492, 3569, 5194, 1532, -54>>, <<6033, 595, 4014, 1530, -54>>,
                 <<11917, 6497, 2826, 1528, -54>>, <<15873, 5057, 1631, 1526, -54>>, <<10237, 12825, 428, 1524, -54>>,
                 <<4322, 13582, 15602, 1521, -54>>, <<8024, 7493, 14385, 1519, -54>>, <<15457, 11108, 13160, 1517, -54>>,
                 <<4943, 8210, 11928, 1515, -54>>, <<4538, 15347, 10688, 1513, -54>>, <<10127, 16301, 9441, 1511, -54>>,
                 <<1804, 11239, 8187, 1509, -54>>, <<9389, 325, 6926, 1507, -54>>, <<14154, 110, 5657, 1505, -54>>,
                 <<14327, 10760, 4380, 1503, -54>>, <<8732, 16057, 3096, 1501, -54>>, <<13163, 16166, 1805, 1499, -54>>,
                 <<11218, 11254, 507, 1497, -54>>, <<3475, 1487, 15586, 1494, -54>>, <<7478, 3414, 14273, 1492, -54>>,
                 <<8573, 818, 12953, 1490, -54>>, <<9084, 10249, 11625, 1488, -54>>, <<11912, 15489, 10290, 1486, -54>>,
                 <<4146, 321, 8949, 1484, -54>>, <<6235, 14062, 7599, 1482, -54>>, <<6421, 7727, 6243, 1480, -54>>,
                 <<9921, 14250, 4879, 1478, -54>>, <<6142, 1030, 3509, 1476, -54>>, <<1441, 1001, 2131, 1474, -54>>,
                 <<2759, 14329, 745, 1472, -54>>, <<1225, 8413, 15737, 1469, -54>>>>[k]
          [] d = 69 ->
               <<<<4926, 16187, 14337, 1467, -54>>, <<6129, 5050, 12931, 1465, -54>>, <<14064, 7936, 11517, 1463, -54>>,
                 <<5766, 8629, 10096, 1461, -54>>, <<7981, 7294, 8668, 1459, -54>>, <<15265, 4098, 7233, 1457, -54>>,
                 <<6358, 15593, 5790, 1455, -54>>, <<9711, 9176, 4341, 1453, -54>>, <<5196, 1399, 2885, 1451, -54>>,
                 <<6023, 8812, 1421, 1449, -54>>, <<9570, 15198, 16334, 1446, -54>>, <<13789, 4340, 14857, 1444, -54>>,
                 <<808, 9174, 13372, 1442, -54>>, <<2474, 13481, 11880, 1440, -54>>, <<2033, 1045, 10382, 1438, -54>>,
                 <<16071, 4800, 8876, 1436, -54>>, <<12571, 8531, 7363, 1434, -54>>, <<9237, 12404, 5843, 1432, -54>>,
                 <<7947, 202, 4317, 1430, -54>>, <<11124, 4860, 2783, 1428, -54>>, <<5377, 10162, 1242, 1426, -54>>,
                 <<10638, 16274, 16078, 1423, -54>>, <<14614, 6980, 14524, 1421, -54>>, <<5580, 15216, 12962, 1419, -54>>,
                 <<5129, 8380, 11394, 1417, -54>>, <<2630, 3024, 9819, 1415, -54>>, <<4401, 15699, 8236, 1413, -54>>,
                 <<912, 13805, 6647, 1411, -54>>, <<15965, 13892, 5051, 1409, -54>>, <<8372, 16130, 3448, 1407, -54>>,
                 <<3020, 4301, 1839, 1405, -54>>, <<8970, 11340, 222, 1403, -54>>>>[k]
          [] d = 70 ->
               <<<<3063, 4648, 14983, 1400, -54>>, <<11826, 775, 13353, 1398, -54>>, <<13191, 16274, 11715, 1396, -54>>,
                 <<2017, 2161, 10072, 1394, -54>>, <<6466, 7754, 8421, 1392, -54>>, <<6104, 454, 6764, 1390, -54>>,
                 <<13791, 13196, 5099, 1388, -54>>, <<10173, 13381, 3428, 1386, -54>>, <<9204, 1176, 1751, 1384, -54>>,
                 <<8983, 9517, 66, 1382, -54>>, <<8157, 5804, 14759, 1379, -54>>, <<5912, 6589, 13061, 1377, -54>>,
                 <<1961, 12040, 11356, 1375, -54>>, <<12946, 5940, 9645, 1373, -54>>, <<6894, 4843, 7927, 1371, -54>>,
                 <<1508, 8916, 6202, 1369, -54>>, <<15037, 1942, 4471, 1367, -54>>, <<715, 476, 2733, 1365, -54>>,
                 <<10622, 4683, 988, 1363, -54>>, <<15449, 14733, 15620, 1360, -54>>, <<2791, 14411, 13862, 1358, -54>>,
                 <<9936, 3883, 12098, 1356, -54>>, <<9164, 16087, 10326, 1354, -54>>, <<6040, 2039, 8549, 1352, -54>>,
                 <<6669, 11059, 6764, 1350, -54>>, <<1296, 10548, 4973, 1348, -54>>, <<13450, 673, 3176, 1346, -54>>,
                 <<1660, 14373, 1371, 1344, -54>>, <<6897, 2662, 15945, 1341, -54>>, <<5111, 14862, 14127, 1339, -54>>,
                 <<5550, 1989, 12304, 1337, -54>>, <<1602, 13364, 10473, 1335, -54>>>>[k]
          [] d = 71 ->
               <<<<3549, 3, 8637, 1333, -54>>, <<5817, 11227, 6793, 1331, -54>>, <<3353, 14437, 4943, 1329, -54>>,
                 <<7996, 9801, 3087, 1327, -54>>, <<15727, 13872, 1224, 1325, -54>>, <<6658, 10436, 15739, 1322, -54>>,
                 <<10571, 16044, 13863, 1320, -54>>, <<8601, 14482, 11981, 1318, -54>>, <<15174, 5918, 10093, 1316, -54>>,
                 <<12464, 6906, 8198, 1314, -54>>, <<15913, 1230, 6297, 1312, -54>>, <<8717, 5444, 4389, 1310, -54>>,
                 <<7353, 3332, 2475, 1308, -54>>, <<12410, 11447, 554, 1306, -54>>, <<8614, 13575, 15011, 1303, -54>>,
                 <<13970, 9884, 13078, 1301, -54>>, <<14208, 544, 11139, 1299, -54>>, <<11965, 2108, 9193, 1297, -54>>,
                 <<10368, 14745, 7240, 1295, -54>>, <<13063, 5856, 5282, 1293, -54>>, <<7812, 8379, 3317, 1291, -54>>,
                 <<15640, 6098, 1346, 1289, -54>>, <<8933, 15568, 15752, 1286, -54>>, <<9731, 4189, 13769, 1284, -54>>,
                 <<7794, 4899, 11779, 1282, -54>>, <<9781, 1483, 9783, 1280, -54>>, <<6462, 10495, 7780, 1278, -54>>,
                 <<5481, 15720, 5771, 1276, -54>>, <<14993, 943, 3757, 1274, -54>>, <<10868, 15487, 1735, 1272, -54>>,
                 <<2249, 10369, 16092, 1269, -54>>, <<15162, 2141, 14059, 1267, -54>>>>[k]
          [] d = 72 ->
               <<<<10576, 7359, 12019, 1265, -54>>, <<15503, 9807, 9973, 1263, -54>>, <<8295, 9656, 7921, 1261, -54>>,
                 <<553, 7075, 5863, 1259, -54>>, <<4378, 2233, 3799, 1257, -54>>, <<15980, 11684, 1728, 1255, -54>>,
                 <<15663, 2831, 16036, 1252, -54>>, <<615, 8612, 13953, 1250, -54>>, <<1269, 12811, 11864, 1248, -54>>,
                 <<15786, 15598, 9769, 1246, -54>>, <<10045, 761, 7669, 1244, -54>>, <<15934, 1236, 5562, 1242, -54>>,
                 <<303, 811, 3449, 1240, -54>>, <<12403, 16037, 1329, 1238, -54>>, <<3655, 14319, 15588, 1235, -54>>,
                 <<7891, 12209, 13457, 1233, -54>>, <<10273, 9878, 11320, 1231, -54>>, <<12815, 7496, 9177, 1229, -54>>,
                 <<1643, 5234, 7028, 1227, -54>>, <<12497, 3260, 4873, 1225, -54>>, <<16070, 1746, 2712, 1223, -54>>,
                 <<16302, 862, 545, 1221, -54>>, <<1212, 779, 14756, 1218, -54>>, <<8457, 1665, 12577, 1216, -54>>,
                 <<10633, 3692, 10392, 1214, -54>>, <<13567, 7030, 8201, 1212, -54>>, <<7185, 11850, 6004, 1210, -54>>,
                 <<14654, 1937, 3802, 1208, -54>>, <<10447, 10231, 1593, 1206, -54>>, <<2289, 4134, 15763, 1203, -54>>,
                 <<14753, 199, 13543, 1201, -54>>, <<7348, 14983, 11316, 1199, -54>>>>[k]
          [] d = 73 ->
               <<<<5576, 15887, 9084, 1197, -54>>, <<2650, 3082, 6847, 1195, -54>>, <<8632, 9506, 4603, 1193, -54>>,
                 <<1270, 2563, 2354, 1191, -54>>, <<7941, 15190, 98, 1189, -54>>, <<7332, 14791, 14221, 1186, -54>>,
                 <<11350, 1536, 11955, 1184, -54>>, <<15991, 8364, 9682, 1182, -54>>, <<1330, 2679, 7404, 1180, -54>>,
                 <<13424, 1033, 5120, 1178, -54>>, <<499, 3600, 2830, 1176, -54>>, <<9542, 10548, 534, 1174, -54>>,
                 <<6067, 5666, 14617, 1171, -54>>, <<5209, 5508, 12310, 1169, -54>>, <<6174, 10245, 9997, 1167, -54>>,
                 <<8613, 3664, 7679, 1165, -54>>, <<12642, 2320, 5355, 1163, -54>>, <<2447, 6385, 3025, 1161, -54>>,
                 <<11806, 16028, 689, 1159, -54>>, <<9431, 15038, 14732, 1156, -54>>, <<13619, 3585, 12386, 1154, -54>>,
                 <<10363, 14609, 10033, 1152, -54>>, <<2488, 15513, 7675, 1150, -54>>, <<9639, 6467, 5312, 1148, -54>>,
                 <<2772, 4028, 2943, 1146, -54>>, <<2437, 8366, 568, 1144, -54>>, <<13240, 3268, 14572, 1141, -54>>,
                 <<7471, 5291, 12186, 1139, -54>>, <<7019, 14605, 9794, 1137, -54>>, <<1436, 14998, 7397, 1135, -54>>,
                 <<13502, 6640, 4995, 1133, -54>>, <<884, 6089, 2587, 1131, -54>>>>[k]
          [] d = 74 ->
               <<<<3625, 13514, 173, 1129, -54>>, <<13055, 12703, 14138, 1126, -54>>, <<4548, 3829, 11714, 1124, -54>>,
                 <<3079, 3446, 9284, 1122, -54>>, <<1294, 11726, 6848, 1120, -54>>, <<8649, 12456, 4407, 1118, -54>>,
                 <<2277, 5809, 1961, 1116, -54>>, <<8901, 8339, 15893, 1113, -54>>, <<6514, 3835, 13436, 1111, -54>>,
                 <<6324, 8852, 10973, 1109, -54>>, <<3576, 7178, 8505, 1107, -54>>, <<10339, 15368, 6031, 1105, -54>>,
                 <<6347, 827, 3553, 1103, -54>>, <<4520, 12878, 1068, 1101, -54>>, <<1835, 2541, 14963, 1098, -54>>,
                 <<12082, 2755, 12468, 1096, -54>>, <<314, 13694, 9967, 1094, -54>>, <<13944, 2759, 7462, 1092, -54>>,
                 <<2505, 2893, 4951, 1090, -54>>, <<14249, 14265, 2434, 1088, -54>>, <<15948, 4281, 16297, 1085, -54>>,
                 <<7550, 5881, 13770, 1083, -54>>, <<5820, 2852, 11238, 1081, -54>>, <<11557, 11750, 8700, 1079, -54>>,
                 <<9604, 16364, 6157, 1077, -54>>, <<1592, 482, 3610, 1075, -54>>, <<5970, 13427, 1056, 1073, -54>>,
                 <<8837, 6220, 14882, 1070, -54>>, <<13081, 11801, 12318, 1068, -54>>, <<5635, 13959, 9749, 1066, -54>>,
                 <<6616, 12865, 7175, 1064, -54>>, <<3777, 8692, 4596, 1062, -54>>>>[k]
          [] d = 75 ->
               <<<<1680, 1612, 2012, 1060, -54>>, <<5301, 8181, 15806, 1057, -54>>, <<3632, 12188, 13211, 1055, -54>>,
                 <<2474, 13805, 10611, 1053, -54>>, <<8033, 13204, 8006, 1051, -54>>, <<10548, 10558, 5396, 1049, -54>>,
                 <<653, 6040, 2781, 1047, -54>>, <<2170, 16205, 160, 1045, -54>>, <<6562, 8458, 13919, 1042, -54>>,
                 <<5687, 15740, 11288, 1040, -54>>, <<8206, 5455, 8653, 1038, -54>>, <<6789, 10544, 6012, 1036, -54>>,
                 <<10904, 14795, 3366, 1034, -54>>, <<14038, 1997, 716, 1032, -54>>, <<10069, 5091, 14444, 1029, -54>>,
                 <<9674, 7865, 11783, 1027, -54>>, <<7544, 10492, 9117, 1025, -54>>, <<13905, 9905, 12893, 2046, -55>>,
                 <<6783, 15607, 7541, 2042, -55>>, <<1885, 5667, 2180, 2038, -55>>, <<8147, 13198, 13192, 2033, -55>>,
                 <<2560, 5779, 7811, 2029, -55>>, <<12029, 138, 2420, 2025, -55>>, <<15120, 13006, 13402, 2020, -55>>,
                 <<7569, 11961, 7991, 2016, -55>>, <<2262, 13732, 2570, 2012, -55>>, <<12892, 2280, 13524, 2007, -55>>,
                 <<4782, 10721, 8083, 2003, -55>>, <<9552, 6631, 2633, 1999, -55>>, <<10469, 6741, 13557, 1994, -55>>,
                 <<7966, 11397, 8087, 1990, -55>>, <<3228, 4561, 2608, 1986, -55>>>>[k]
          [] d = 76 ->
               <<<<14627, 2962, 13503, 1981, -55>>, <<12128, 6948, 8004, 1977, -55>>, <<15643, 480, 2496, 1973, -55>>,
                 <<13083, 289, 13362, 1968, -55>>, <<9489, 6721, 7834, 1964, -55>>, <<10692, 3738, 2297, 1960, -55>>,
                 <<6903, 8071, 13134, 1955, -55>>, <<5456, 3682, 7578, 1951, -55>>, <<14472, 7301, 2012, 1947, -55>>,
                 <<10060, 2892, 12821, 1942, -55>>, <<1834, 7185, 7236, 1938, -55>>, <<187, 4142, 1642, 1934, -55>>,
                 <<16265, 10493, 12422, 1929, -55>>, <<12793, 10203, 6809, 1925, -55>>, <<2430, 3618, 1187, 1921, -55>>,
                 <<14937, 7467, 11939, 1916, -55>>, <<15310, 5715, 6298, 1912, -55>>, <<2057, 15093, 647, 1908, -55>>,
                 <<7180, 3178, 11372, 1903, -55>>, <<14289, 3086, 5703, 1899, -55>>, <<7740, 15165, 24, 1895, -55>>,
                 <<5369, 6993, 10721, 1890, -55>>, <<9391, 11685, 5024, 1886, -55>>, <<6373, 13205, 15702, 1881, -55>>,
                 <<16359, 11899, 9987, 1877, -55>>, <<10998, 8116, 4263, 1873, -55>>, <<11823, 2202, 14914, 1868, -55>>,
                 <<8302, 10889, 9171, 1864, -55>>, <<7040, 1756, 3420, 1860, -55>>, <<15358, 7918, 14043, 1855, -55>>,
                 <<8543, 13340, 8273, 1851, -55>>, <<11731, 1984, 2495, 1847, -55>>>>[k]
          [] d = 77 ->
               <<<<1650, 6967, 13091, 1842, -55>>, <<4901, 12251, 7294, 1838, -55>>, <<16009, 1800, 1489, 1834, -55>>,
                 <<13854, 8731, 12058, 1829, -55>>, <<10799, 623, 6235, 1825, -55>>, <<3509, 10592, 402, 1821, -55>>,
                 <<5771, 6217, 10945, 1816, -55>>, <<15693, 4230, 5095, 1812, -55>>, <<15684, 4980, 15620, 1807, -55>>,
                 <<5266, 8815, 9752, 1803, -55>>, <<1050, 16082, 3875, 1799, -55>>, <<3938, 10745, 14374, 1794, -55>>,
                 <<15559, 9536, 8480, 1790, -55>>, <<5470, 12805, 2577, 1786, -55>>, <<9440, 4514, 13050, 1781, -55>>,
                 <<14811, 1396, 7130, 1777, -55>>, <<9586, 3800, 1201, 1773, -55>>, <<15254, 12073, 11647, 1768, -55>>,
                 <<4840, 10181, 5701, 1764, -55>>, <<1187, 14855, 16130, 1759, -55>>, <<11463, 10059, 10167, 1755, -55>>,
                 <<10754, 12527, 4195, 1751, -55>>, <<7574, 6223, 14599, 1746, -55>>, <<11140, 7879, 8610, 1742, -55>>,
                 <<14968, 1460, 2613, 1738, -55>>, <<13227, 3699, 12991, 1733, -55>>, <<793, 14945, 6976, 1729, -55>>,
                 <<5955, 2777, 954, 1725, -55>>, <<8546, 313, 11307, 1720, -55>>, <<5454, 7902, 5267, 1716, -55>>,
                 <<10597, 9508, 15603, 1711, -55>>, <<5819, 5481, 9547, 1707, -55>>>>[k]
          [] d = 78 ->
               <<<<6394, 12553, 3482, 1703, -55>>, <<11857, 14689, 13793, 1698, -55>>, <<6044, 12239, 7712, 1694, -55>>,
                 <<6218, 5551, 1623, 1690, -55>>, <<13898, 11358, 11909, 1685, -55>>, <<14905, 13626, 5803, 1681, -55>>,
                 <<12071, 12704, 16073, 1676, -55>>, <<8903, 8941, 9951, 1672, -55>>, <<9563, 2686, 3821, 1668, -55>>,
                 <<2456, 10673, 14066, 1663, -55>>, <<9428, 482, 7920, 1659, -55>>, <<3820, 5232, 1765, 1655, -55>>,
                 <<8747, 8887, 11986, 1650, -55>>, <<15225, 11797, 5815, 1646, -55>>, <<14911, 14312, 16020, 1641, -55>>,
                 <<80, 398, 9834, 1637, -55>>, <<12830, 3170, 3639, 1633, -55>>, <<13943, 6596, 13820, 1628, -55>>,
                 <<14015, 11025, 7609, 1624, -55>>, <<7890, 423, 1391, 1620, -55>>, <<7404, 7907, 11548, 1615, -55>>,
                 <<8666, 1059, 5314, 1611, -55>>, <<8403, 12997, 15455, 1606, -55>>, <<3978, 11303, 9205, 1602, -55>>,
                 <<9741, 12710, 2947, 1598, -55>>, <<7919, 1185, 13066, 1593, -55>>, <<14131, 9845, 6792, 1589, -55>>,
                 <<11825, 6273, 511, 1585, -55>>, <<1472, 7203, 10606, 1580, -55>>, <<548, 12984, 4309, 1576, -55>>,
                 <<10734, 7582, 14389, 1571, -55>>, <<1581, 7733, 8077, 1567, -55>>>>[k]
          [] d = 79 ->
               <<<<8787, 13785, 1757, 1563, -55>>, <<3101, 9706, 11814, 1558, -55>>, <<5056, 12229, 5479, 1554, -55>>,
                 <<3017, 5321, 15521, 1549, -55>>, <<2342, 5716, 9171, 1545, -55>>, <<8974, 13764, 2813, 1541, -55>>,
                 <<13100, 13432, 12832, 1536, -55>>, <<5478, 5071, 6460, 1532, -55>>, <<10256, 5414, 80, 1528, -55>>,
                 <<3025, 14813, 10076, 1523, -55>>, <<9099, 849, 3682, 1519, -55>>, <<5259, 13026, 13663, 1514, -55>>,
                 <<1643, 2542, 7254, 1510, -55>>, <<8955, 2515, 837, 1506, -55>>, <<5743, 13297, 10796, 1501, -55>>,
                 <<3910, 2470, 4365, 1497, -55>>, <<15918, 3152, 14310, 1492, -55>>, <<5693, 15696, 7863, 1488, -55>>,
                 <<3245, 7683, 1410, 1484, -55>>, <<6420, 12232, 11333, 1479, -55>>, <<13642, 13310, 4865, 1475, -55>>,
                 <<7502, 11269, 14774, 1470, -55>>, <<3956, 6459, 8292, 1466, -55>>, <<3152, 15615, 1802, 1462, -55>>,
                 <<5782, 6320, 11690, 1457, -55>>, <<13132, 11693, 5186, 1453, -55>>, <<10671, 15702, 15059, 1448, -55>>,
                 <<793, 2314, 8542, 1444, -55>>, <<2873, 4647, 2017, 1440, -55>>, <<4048, 6669, 11869, 1435, -55>>,
                 <<8423, 8731, 5330, 1431, -55>>, <<4279, 11185, 15168, 1426, -55>>>>[k]
          [] d = 80 ->
               <<<<13196, 14381, 8615, 1422, -55>>, <<8184, 2288, 2056, 1418, -55>>, <<11956, 8024, 11873, 1413, -55>>,
                 <<14986, 15557, 5299, 1409, -55>>, <<8323, 8855, 15103, 1404, -55>>, <<16331, 4652, 8516, 1400, -55>>,
                 <<14747, 3301, 1922, 1396, -55>>, <<12650, 5153, 11705, 1391, -55>>, <<3250, 10560, 5097, 1387, -55>>,
                 <<13087, 3488, 14867, 1382, -55>>, <<3707, 675, 8246, 1378, -55>>, <<2706, 2471, 1618, 1374, -55>>,
                 <<5473, 9228, 11367, 1369, -55>>, <<7931, 4914, 4726, 1365, -55>>, <<6511, 6265, 14462, 1360, -55>>,
                 <<14586, 13632, 7807, 1356, -55>>, <<13289, 10984, 1146, 1352, -55>>, <<641, 15057, 10862, 1347, -55>>,
                 <<7982, 9817, 4188, 1343, -55>>, <<1638, 12002, 13891, 1338, -55>>, <<13974, 5578, 7204, 1334, -55>>,
                 <<12361, 7283, 510, 1330, -55>>, <<13842, 1084, 10194, 1325, -55>>, <<3186, 3718, 3487, 1321, -55>>,
                 <<14854, 15535, 13157, 1316, -55>>, <<1900, 4122, 6438, 1312, -55>>, <<16172, 2596, 16096, 1307, -55>>,
                 <<11749, 11312, 9363, 1303, -55>>, <<8745, 14237, 2624, 1299, -55>>, <<11407, 11723, 12263, 1294, -55>>,
                 <<8080, 4123, 5512, 1290, -55>>, <<4019, 8173, 15138, 1285, -55>>>>[k]
          [] d = 81 ->
               <<<<4983, 7841, 8374, 1281, -55>>, <<823, 3480, 1604, 1277, -55>>, <<14680, 11825, 11211, 1272, -55>>,
                 <<4658, 463, 4429, 1268, -55>>, <<11249, 2512, 14024, 1263, -55>>, <<9930, 1942, 7229, 1259, -55>>,
                 <<9437, 15489, 427, 1255, -55>>, <<2585, 10738, 10004, 1250, -55>>, <<15483, 4424, 3191, 1246, -55>>,
                 <<9154, 13286, 12755, 1241, -55>>, <<10669, 4907, 5930, 1237, -55>>, <<14812, 12408, 15482, 1232, -55>>,
                 <<443, 3375, 8645, 1228, -55>>, <<12460, 10926, 1801, 1224, -55>>, <<14319, 2648, 11336, 1219, -55>>,
                 <<2698, 11662, 4480, 1215, -55>>, <<7548, 5551, 14003, 1210, -55>>, <<10111, 1053, 7136, 1206, -55>>,
                 <<8506, 14905, 262, 1202, -55>>, <<1315, 14692, 9767, 1197, -55>>, <<3972, 766, 2883, 1193, -55>>,
                 <<16008, 6248, 12376, 1188, -55>>, <<4602, 15109, 5479, 1184, -55>>, <<2983, 11316, 14961, 1179, -55>>,
                 <<12052, 11606, 8053, 1175, -55>>, <<405, 16334, 1139, 1171, -55>>, <<2646, 9467, 10604, 1166, -55>>,
                 <<4634, 7743, 3679, 1162, -55>>, <<9117, 11515, 13132, 1157, -55>>, <<2893, 4753, 6196, 1153, -55>>,
                 <<5978, 4193, 15638, 1148, -55>>, <<6070, 10189, 8690, 1144, -55>>>>[k]
          [] d = 82 ->
               <<<<7714, 6710, 1737, 1140, -55>>, <<15854, 10493, 11162, 1135, -55>>, <<3154, 5509, 4198, 1131, -55>>,
                 <<8245, 8493, 13612, 1126, -55>>, <<4657, 3416, 6637, 1122, -55>>, <<15530, 7014, 16040, 1117, -55>>,
                 <<15240, 3258, 9054, 1113, -55>>, <<11414, 8885, 2062, 1109, -55>>, <<12096, 7864, 11449, 1104, -55>>,
                 <<9379, 549, 4447, 1100, -55>>, <<12169, 3677, 13823, 1095, -55>>, <<13423, 1218, 6810, 1091, -55>>,
                 <<6511, 9910, 16175, 1086, -55>>, <<1610, 13722, 9151, 1082, -55>>, <<9337, 13007, 2122, 1078, -55>>,
                 <<7954, 8120, 11472, 1073, -55>>, <<8917, 15798, 4432, 1069, -55>>, <<7696, 3627, 13772, 1064, -55>>,
                 <<204, 4729, 6722, 1060, -55>>, <<15508, 3072, 16051, 1055, -55>>, <<1192, 15397, 8990, 1051, -55>>,
                 <<3544, 9287, 1925, 1047, -55>>, <<3735, 1481, 11239, 1042, -55>>, <<16088, 8716, 4163, 1038, -55>>,
                 <<6204, 14964, 13466, 1033, -55>>, <<5622, 4193, 6381, 1029, -55>>, <<13493, 9525, 15674, 1024, -55>>,
                 <<9650, 13479, 773, 2041, -56>>, <<8289, 8762, 2956, 2032, -56>>, <<7260, 5608, 5129, 2023, -56>>,
                 <<8082, 4725, 7292, 2014, -56>>, <<13076, 6821, 9445, 2005, -56>>>>[k]
          [] d = 83 ->
               <<<<8916, 12605, 11588, 1996, -56>>, <<15887, 6400, 13722, 1987, -56>>, <<5836, 5300, 15846, 1978, -56>>,
                 <<584, 10012, 1576, 1970, -56>>, <<6323, 4860, 3681, 1961, -56>>, <<13624, 6937, 5776, 1952, -56>>,
                 <<13859, 568, 7862, 1943, -56>>, <<15442, 2845, 9938, 1934, -56>>, <<11260, 14477, 12004, 1925, -56>>,
                 <<11303, 3404, 14062, 1916, -56>>, <<9925, 3103, 16110, 1907, -56>>, <<2230, 14283, 1764, 1899, -56>>,
                 <<476, 4884, 3794, 1890, -56>>, <<1184, 8383, 5814, 1881, -56>>, <<1705, 9105, 7825, 1872, -56>>,
                 <<89, 7759, 9827, 1863, -56>>, <<11501, 5053, 11820, 1854, -56>>, <<2709, 1698, 13804, 1845, -56>>,
                 <<6646, 14785, 15778, 1836, -56>>, <<7905, 12256, 1360, 1828, -56>>, <<8146, 11204, 3317, 1819, -56>>,
                 <<9742, 12338, 5265, 1810, -56>>, <<15771, 16367, 7204, 1801, -56>>, <<13668, 7617, 9135, 1792, -56>>,
                 <<7853, 3181, 11057, 1783, -56>>, <<3541, 3768, 12970, 1774, -56>>, <<6612, 10087, 14874, 1765, -56>>,
                 <<7248, 6464, 386, 1757, -56>>, <<12737, 9992, 2273, 1748, -56>>, <<14572, 4997, 4152, 1739, -56>>,
                 <<5019, 8573, 6022, 1730, -56>>, <<9759, 5044, 7884, 1721, -56>>>>[k]
          [] d = 84 ->
               <<<<5995, 11505, 9737, 1712, -56>>, <<4366, 12281, 11582, 1703, -56>>, <<16212, 8081, 13419, 1694, -56>>,
                 <<4285, 16001, 15247, 1685, -56>>, <<14016, 3980, 684, 1677, -56>>, <<9538, 5498, 2496, 1668, -56>>,
                 <<4790, 4880, 4300, 1659, -56>>, <<14373, 2835, 6096, 1650, -56>>, <<4355, 75, 7884, 1641, -56>>,
                 <<6979, 13692, 9663, 1632, -56>>, <<6006, 11629, 11435, 1623, -56>>, <<2203, 10980, 13199, 1614, -56>>,
                 <<13352, 12454, 14955, 1605, -56>>, <<8727, 379, 320, 1597, -56>>, <<7330, 8232, 2060, 1588, -56>>,
                 <<12468, 3955, 3793, 1579, -56>>, <<11614, 4643, 5518, 1570, -56>>, <<9291, 11006, 7235, 1561, -56>>,
                 <<10631, 7370, 8945, 1552, -56>>, <<4943, 10830, 10647, 1543, -56>>, <<14955, 5711, 12342, 1534, -56>>,
                 <<14844, 9109, 14029, 1525, -56>>, <<12106, 5350, 15709, 1516, -56>>, <<14878, 11528, 997, 1508, -56>>,
                 <<15501, 11970, 2662, 1499, -56>>, <<6858, 7387, 4320, 1490, -56>>, <<15231, 14872, 5970, 1481, -56>>,
                 <<1929, 2370, 7614, 1472, -56>>, <<10774, 3357, 9250, 1463, -56>>, <<4209, 2162, 10879, 1454, -56>>,
                 <<10782, 15878, 12500, 1445, -56>>, <<10489, 12449, 14115, 1436, -56>>>>[k]
          [] d = 85 ->
               <<<<256, 8970, 15723, 1427, -56>>, <<10334, 6150, 940, 1419, -56>>, <<6012, 4702, 2534, 1410, -56>>,
                 <<2251, 5336, 4121, 1401, -56>>, <<14561, 8762, 5701, 1392, -56>>, <<9877, 15693, 7274, 1383, -56>>,
                 <<4811, 10455, 8841, 1374, -56>>, <<132, 10143, 10401, 1365, -56>>, <<13556, 15467, 11954, 1356, -56>>,
                 <<14086, 10756, 13501, 1347, -56>>, <<4116, 13105, 15041, 1338, -56>>, <<2916, 6840, 191, 1330, -56>>,
                 <<13893, 9056, 1718, 1321, -56>>, <<8206, 4082, 3239, 1312, -56>>, <<6708, 9012, 4753, 1303, -56>>,
                 <<14286, 8173, 6261, 1294, -56>>, <<3661, 2278, 7763, 1285, -56>>, <<13563, 8420, 9258, 1276, -56>>,
                 <<1300, 10929, 10747, 1267, -56>>, <<6631, 10514, 12230, 1258, -56>>, <<4174, 7888, 13707, 1249, -56>>,
                 <<1905, 3762, 15178, 1240, -56>>, <<8250, 15231, 258, 1232, -56>>, <<15735, 10239, 1717, 1223, -56>>,
                 <<985, 5883, 3170, 1214, -56>>, <<6664, 2872, 4617, 1205, -56>>, <<10280, 1919, 6058, 1196, -56>>,
                 <<6288, 3736, 7493, 1187, -56>>, <<5963, 9034, 8922, 1178, -56>>, <<4656, 2141, 10346, 1169, -56>>,
                 <<14593, 152, 11764, 1160, -56>>, <<15592, 3780, 13176, 1151, -56>>>>[k]
          [] d = 86 ->
               <<<<4403, 13737, 14582, 1142, -56>>, <<10959, 14349, 15983, 1133, -56>>, <<103, 6330, 995, 1125, -56>>,
                 <<2654, 6774, 2385, 1116, -56>>, <<751, 10, 3770, 1107, -56>>, <<9637, 3133, 5149, 1098, -56>>,
                 <<12315, 472, 6523, 1089, -56>>, <<8568, 9123, 7891, 1080, -56>>, <<14986, 13413, 9254, 1071, -56>>,
                 <<15829, 14055, 10612, 1062, -56>>, <<12108, 11761, 11965, 1053, -56>>, <<5313, 7243, 13313, 1044, -56>>,
                 <<13665, 1212, 14656, 1035, -56>>, <<6684, 10766, 15993, 1026, -56>>, <<6865, 7696, 1884, 2036, -57>>,
                 <<14009, 11492, 4539, 2018, -57>>, <<8914, 1578, 7185, 2000, -57>>, <<15760, 12145, 9820, 1982, -57>>,
                 <<10226, 11851, 12446, 1964, -57>>, <<1627, 2120, 15063, 1946, -57>>, <<43, 760, 1286, 1929, -57>>,
                 <<16214, 9195, 3883, 1911, -57>>, <<12576, 12468, 6471, 1893, -57>>, <<1428, 12003, 9050, 1875, -57>>,
                 <<12224, 9223, 11620, 1857, -57>>, <<9515, 5555, 14181, 1839, -57>>, <<7852, 2423, 349, 1822, -57>>,
                 <<5995, 1252, 2892, 1804, -57>>, <<3506, 3467, 5426, 1786, -57>>, <<617, 10493, 7951, 1768, -57>>,
                 <<14674, 7370, 10468, 1750, -57>>, <<14492, 11909, 12976, 1732, -57>>>>[k]
          [] d = 87 ->
               <<<<2337, 9151, 15476, 1714, -57>>, <<13982, 519, 1584, 1697, -57>>, <<3913, 3825, 4067, 1679, -57>>,
                 <<9200, 4108, 6542, 1661, -57>>, <<2029, 2795, 9009, 1643, -57>>, <<4446, 1310, 11468, 1625, -57>>,
                 <<6180, 1079, 13919, 1607, -57>>, <<14169, 3527, 16362, 1589, -57>>, <<3142, 10081, 2413, 1572, -57>>,
                 <<13985, 5780, 4841, 1554, -57>>, <<6339, 8436, 7261, 1536, -57>>, <<5794, 3089, 9674, 1518, -57>>,
                 <<5962, 7549, 12079, 1500, -57>>, <<982, 6858, 14477, 1482, -57>>, <<1961, 2441, 484, 1465, -57>>,
                 <<4201, 12108, 2867, 1447, -57>>, <<3634, 4517, 5244, 1429, -57>>, <<12952, 13861, 7613, 1411, -57>>,
                 <<12824, 8799, 9976, 1393, -57>>, <<789, 7141, 12332, 1375, -57>>, <<7697, 10311, 14681, 1357, -57>>,
                 <<15846, 3352, 640, 1340, -57>>, <<7868, 4075, 2976, 1322, -57>>, <<16264, 13904, 5305, 1304, -57>>,
                 <<8447, 1499, 7629, 1286, -57>>, <<1491, 1053, 9946, 1268, -57>>, <<12969, 13991, 12256, 1250, -57>>,
                 <<11862, 8973, 14561, 1232, -57>>, <<212, 3809, 476, 1215, -57>>, <<13502, 16307, 2768, 1197, -57>>,
                 <<5703, 15128, 5055, 1179, -57>>, <<13173, 1696, 7337, 1161, -57>>>>[k]
          [] d = 88 ->
               <<<<7223, 10207, 9612, 1143, -57>>, <<8706, 9318, 11882, 1125, -57>>, <<6152, 456, 14147, 1107, -57>>,
                 <<4976, 1431, 22, 1090, -57>>, <<10993, 13669, 2275, 1072, -57>>, <<14058, 5829, 4524, 1054, -57>>,
                 <<4474, 12106, 6767, 1036, -57>>, <<11322, 2314, 1628, 2037, -58>>, <<961, 14355, 6094, 2001, -58>>,
                 <<10045, 14034, 10551, 1965, -58>>, <<5935, 4206, 14999, 1929, -58>>, <<5906, 4107, 3053, 1894, -58>>,
                 <<11667, 206, 7482, 1858, -58>>, <<9086, 11741, 11901, 1822, -58>>, <<1396, 8797, 16312, 1786, -58>>,
                 <<8666, 10610, 4330, 1751, -58>>, <<2701, 3651, 8724, 1715, -58>>, <<5141, 7156, 13109, 1679, -58>>,
                 <<5331, 7595, 1102, 1644, -58>>, <<9847, 7821, 5471, 1608, -58>>, <<9523, 10688, 9832, 1572, -58>>,
                 <<12007, 2665, 14186, 1536, -58>>, <<9370, 2990, 2148, 1501, -58>>, <<10664, 14516, 6486, 1465, -58>>,
                 <<8950, 7329, 10818, 1429, -58>>, <<14433, 666, 15143, 1393, -58>>, <<5046, 13766, 3076, 1358, -58>>,
                 <<8478, 329, 7388, 1322, -58>>, <<3668, 12362, 11692, 1286, -58>>, <<2836, 3566, 15991, 1250, -58>>,
                 <<2447, 9563, 3899, 1215, -58>>, <<15776, 438, 8186, 1179, -58>>>>[k]
          [] d = 89 ->
               <<<<7415, 11815, 12466, 1143, -58>>, <<8017, 13778, 357, 1108, -58>>, <<15784, 9181, 4627, 1072, -58>>,
                 <<12964, 879, 8892, 1036, -58>>, <<13858, 16219, 9918, 2001, -59>>, <<10776, 1916, 2044, 1930, -59>>,
                 <<113, 13710, 10543, 1858, -59>>, <<15459, 8155, 2650, 1787, -59>>, <<8438, 7346, 11132, 1715, -59>>,
                 <<14060, 605, 3222, 1644, -59>>, <<2209, 10026, 11687, 1572, -59>>, <<8945, 8547, 3761, 1501, -59>>,
                 <<5406, 1878, 12212, 1429, -59>>, <<12719, 12110, 4271, 1358, -59>>, <<2650, 12185, 12708, 1286, -59>>,
                 <<13798, 7809, 4755, 1215, -59>>, <<3083, 4693, 13180, 1143, -59>>, <<9823, 8543, 5215, 1072, -59>>,
                 <<613, 987, 10875, 2001, -60>>, <<12014, 5270, 11309, 1858, -60>>, <<4424, 8587, 11734, 1715, -60>>,
                 <<10551, 5969, 12151, 1572, -60>>, <<14618, 8834, 12560, 1429, -60>>, <<1458, 12216, 12962, 1286, -60>>,
                 <<6127, 11146, 13358, 1143, -60>>, <<10602, 1317, 11114, 2001, -61>>, <<4426, 725, 11885, 1715, -61>>,
                 <<16331, 10581, 12647, 1429, -61>>, <<4054, 4570, 13403, 1143, -61>>, <<1281, 11049, 11922, 1715, -62>>,
                 <<7483, 7022, 13414, 1143, -62>>, <<8498, 3539, 13417, 1143, -63>>>>[k]
          [] d = 90 ->
               <<<<7175, 3153, 8803, 1129, -106>>>>[k]

\* np.cos(declo*np.pi/180) of an angle in ticks
Cos(ticks) == F64Entry(CosTable(Abs(ticks)))

\* int(np.ceil(half)*2) of a double half > 0
CeilEven(half) ==
    2 * (BigToInt(F64Floor(half))
         + IF half.e < 0 THEN (IF BigLowBits(half.m, -half.e) THEN 1 ELSE 0) ELSE 0)

\* int(np.ceil(n/2)*2) with n = 360/bricksize * np.cos(declo*np.pi/180), in
\* double arithmetic
EvenCols(bricksize, declo) ==
    CeilEven(F64Scale(F64Mul(F64DivInt(F64(DegFull * TicksPerDeg), bricksize),
                             Cos(declo)), -1))

\* ncol_per_row[i], the poles forced to 1
NcolPerRow(bricksize, i) ==
    IF i = 0 \/ i = NRow(bricksize) - 1 THEN 1
    ELSE EvenCols(bricksize, Abs(CenterDec(bricksize, i)) - bricksize \div 2)

\* edges_ra[i][j] = np.linspace(0, 360, ncol+1)[j]: j * step with
\* step = 360/ncol, and the last element 360; [0, 360] in the polar rows
EdgesRa(ncol, j) ==
    IF j = ncol THEN F64(DegFull)
    ELSE F64MulInt(F64DivInt(F64(DegFull), ncol), j)

\* center_ra[i][j] = 0.5*(edges[j]+edges[j+1]); 180 in the polar rows
CenterRa(ncol, j) == F64Scale(F64Add(EdgesRa(ncol, j), EdgesRa(ncol, j + 1)), -1)

\* the first 4 characters of a number printed with 7 digits, zero-padded
First4Of7(n) == IF n >= 10^7 THEN n \div 10^4 ELSE n \div 10^3

\* the first 3 characters of a number printed with 6 digits, zero-padded
First3Of6(n) == IF n >= 10^6 THEN n \div 10^4 ELSE n \div 10^3

\* the leading 4 digits of "{0:07.0f}".format(center_ra*10000)
RaDigits(ncol, j) == First4Of7(F64RoundInt(F64MulInt(CenterRa(ncol, j), NameScale)))

\* the leading 3 digits of "{0:06.0f}".format(np.absolute(center_dec)*10000)
DecDigits(center) == First3Of6(RoundHalfEven(Abs(center) * NameScale, TicksPerDeg))

\* a naming that leaves the sign of the declination out
BrickNameOf_NoSign(bricksize, i, j) ==
    <<RaDigits(NcolPerRow(bricksize, i), j), "p", DecDigits(CenterDec(bricksize, i))>>

\* brickname[i][j] = ra[0:4]+pm+dec[0:3]
BrickNameOf(bricksize, i, j) ==
    LET center == CenterDec(bricksize, i)
    IN  <<RaDigits(NcolPerRow(bricksize, i), j),
          IF center >= 0 THEN "p" ELSE "m",
          DecDigits(center)>>

\* np.degrees(np.sin(np.radians(d))), the double the library returns, for
\* d = t/TicksPerDeg and t = 0 .. 90 degrees of ticks, one arm for each degree
DegSinTable(t) ==
    LET d == t \div TicksPerDeg
        k == (t % TicksPerDeg) + 1
    IN  CASE d = 0 ->
               <<<<0, 0, 0, 0, 0>>, <<4835, 5511, 16382, 2047, -58>>, <<3034, 5661, 16377, 2047, -57>>,
                 <<4320, 12625, 16372, 1535, -56>>, <<13411, 6260, 16357, 2047, -56>>, <<2254, 98, 16358, 1279, -55>>,
                 <<5738, 1349, 16339, 1535, -55>>, <<10007, 11017, 16312, 1791, -55>>, <<8513, 8660, 16277, 2047, -55>>,
                 <<14084, 3301, 16308, 1151, -54>>, <<7385, 394, 16280, 1279, -54>>, <<14848, 9962, 16245, 1407, -54>>,
                 <<2122, 5402, 16204, 1535, -54>>, <<942, 9259, 16155, 1663, -54>>, <<10874, 11312, 16098, 1791, -54>>,
                 <<15744, 1341, 16033, 1919, -54>>, <<82, 1894, 15958, 2047, -54>>, <<15538, 9565, 16128, 1087, -53>>,
                 <<6440, 13225, 16080, 1151, -53>>, <<15356, 6814, 16027, 1215, -53>>, <<3426, 1608, 15968, 1279, -53>>,
                 <<14180, 8878, 15902, 1343, -53>>, <<9731, 7132, 15830, 1407, -53>>, <<1862, 7643, 15751, 1471, -53>>,
                 <<2908, 5300, 15665, 1535, -53>>, <<9389, 11377, 15571, 1599, -53>>, <<2043, 4381, 15470, 1663, -53>>,
                 <<11379, 11968, 15360, 1727, -53>>, <<3022, 12646, 15242, 1791, -53>>, <<8800, 1303, 15116, 1855, -53>>,
                 <<12088, 5598, 14980, 1919, -53>>, <<13372, 4037, 14835, 1983, -53>>>>[k]
          [] d = 1 ->
               <<<<13880, 7894, 14680, 2047, -53>>, <<15999, 14221, 15449, 1055, -52>>, <<10687, 5711, 15362, 1087, -52>>,
                 <<9196, 8629, 15269, 1119, -52>>, <<13763, 4036, 15171, 1151, -52>>, <<10672, 5762, 15067, 1183, -52>>,
                 <<3042, 11252, 14957, 1215, -52>>, <<10833, 1566, 14842, 1247, -52>>, <<5333, 6919, 14720, 1279, -52>>,
                 <<7462, 8371, 14592, 1311, -52>>, <<5871, 3368, 14458, 1343, -52>>, <<6106, 5739, 14317, 1375, -52>>,
                 <<14238, 12929, 14169, 1407, -52>>, <<4105, 6001, 14015, 1439, -52>>, <<15626, 15166, 13853, 1471, -52>>,
                 <<7362, 5104, 13685, 1503, -52>>, <<3984, 6027, 13509, 1535, -52>>, <<14362, 15380, 13325, 1567, -52>>,
                 <<15200, 14226, 13134, 1599, -52>>, <<191, 11, 12936, 1631, -52>>, <<12805, 2946, 12729, 1663, -52>>,
                 <<15228, 4095, 12514, 1695, -52>>, <<3060, 904, 12291, 1727, -52>>, <<5331, 7201, 12059, 1759, -52>>,
                 <<2587, 4049, 11819, 1791, -52>>, <<8834, 5277, 11570, 1823, -52>>, <<5998, 8332, 11312, 1855, -52>>,
                 <<9493, 10659, 11045, 1887, -52>>, <<2677, 9705, 10769, 1919, -52>>, <<2421, 2915, 10484, 1951, -52>>,
                 <<9954, 4119, 10189, 1983, -52>>, <<10877, 10764, 9884, 2015, -52>>>>[k]
          [] d = 2 ->
               <<<<7951, 3912, 9570, 2047, -52>>, <<10554, 15080, 12814, 1039, -51>>, <<10961, 10710, 12647, 1055, -51>>,
                 <<7770, 3953, 12475, 1071, -51>>, <<3969, 9916, 12297, 1087, -51>>, <<2960, 10938, 12114, 1103, -51>>,
                 <<8575, 5742, 11926, 1119, -51>>, <<8681, 9436, 11732, 1135, -51>>, <<7975, 4359, 11533, 1151, -51>>,
                 <<11588, 5618, 11328, 1167, -51>>, <<8719, 11937, 11117, 1183, -51>>, <<5407, 5655, 10901, 1199, -51>>,
                 <<8148, 1879, 10679, 1215, -51>>, <<7525, 15717, 10450, 1231, -51>>, <<10973, 13124, 10216, 1247, -51>>,
                 <<10027, 9208, 9976, 1263, -51>>, <<13090, 2692, 9730, 1279, -51>>, <<12672, 8684, 9477, 1295, -51>>,
                 <<1782, 9524, 9218, 1311, -51>>, <<6700, 3934, 8953, 1327, -51>>, <<5065, 7023, 8681, 1343, -51>>,
                 <<7803, 1130, 8403, 1359, -51>>, <<9975, 1363, 8118, 1375, -51>>, <<7172, 6446, 7826, 1391, -51>>,
                 <<11908, 15102, 7527, 1407, -51>>, <<4467, 9672, 7222, 1423, -51>>, <<14834, 5262, 6910, 1439, -51>>,
                 <<8010, 598, 6591, 1455, -51>>, <<15096, 10786, 6264, 1471, -51>>, <<2219, 1784, 5931, 1487, -51>>,
                 <<1619, 5082, 5590, 1503, -51>>, <<13343, 3020, 5242, 1519, -51>>>>[k]
          [] d = 3 ->
               <<<<5258, 10708, 4886, 1535, -51>>, <<11357, 10484, 4523, 1551, -51>>, <<695, 1074, 4153, 1567, -51>>,
                 <<8467, 13968, 3774, 1583, -51>>, <<4941, 15124, 3388, 1599, -51>>, <<10153, 3265, 2995, 1615, -51>>,
                 <<11996, 9884, 2593, 1631, -51>>, <<15372, 937, 2184, 1647, -51>>, <<9436, 7917, 1766, 1663, -51>>,
                 <<367, 13164, 1340, 1679, -51>>, <<11377, 15401, 906, 1695, -51>>, <<794, 13355, 464, 1711, -51>>,
                 <<9526, 5748, 14, 1727, -51>>, <<13611, 7690, 15939, 1742, -51>>, <<6144, 1522, 15472, 1758, -51>>,
                 <<13665, 2351, 14996, 1774, -51>>, <<14246, 8903, 14511, 1790, -51>>, <<3036, 3519, 14018, 1806, -51>>,
                 <<8649, 1306, 13516, 1822, -51>>, <<11245, 990, 13005, 1838, -51>>, <<8088, 1296, 12485, 1854, -51>>,
                 <<13529, 948, 11956, 1870, -51>>, <<9884, 15056, 11417, 1886, -51>>, <<12956, 9576, 10870, 1902, -51>>,
                 <<6520, 16002, 10313, 1918, -51>>, <<7860, 290, 9748, 1934, -51>>, <<2233, 10318, 9172, 1950, -51>>,
                 <<8426, 12042, 8587, 1966, -51>>, <<13206, 4188, 7993, 1982, -51>>, <<4116, 1866, 7389, 1998, -51>>,
                 <<2229, 3800, 6775, 2014, -51>>, <<13021, 8715, 6151, 2030, -51>>>>[k]
          [] d = 4 ->
               <<<<9975, 15338, 5517, 2046, -51>>, <<70, 3005, 2437, 1031, -50>>, <<12064, 6111, 2110, 1039, -50>>,
                 <<4328, 8160, 1778, 1047, -50>>, <<6170, 8513, 1441, 1055, -50>>, <<14528, 6533, 1099, 1063, -50>>,
                 <<10374, 1584, 752, 1071, -50>>, <<7857, 9412, 399, 1079, -50>>, <<5162, 12996, 41, 1087, -50>>,
                 <<890, 11699, 16062, 1094, -50>>, <<10454, 4883, 15694, 1102, -50>>, <<539, 8297, 15320, 1110, -50>>,
                 <<3793, 4918, 14941, 1118, -50>>, <<4148, 10494, 14556, 1126, -50>>, <<2354, 8004, 14166, 1134, -50>>,
                 <<15982, 13194, 13770, 1142, -50>>, <<13895, 9045, 13369, 1150, -50>>, <<14553, 11303, 12962, 1158, -50>>,
                 <<4091, 2948, 12550, 1166, -50>>, <<1872, 16110, 12131, 1174, -50>>, <<11321, 1000, 11708, 1182, -50>>,
                 <<3555, 6135, 11278, 1190, -50>>, <<15689, 14492, 10842, 1198, -50>>, <<3378, 9053, 10401, 1206, -50>>,
                 <<4668, 5563, 9954, 1214, -50>>, <<8917, 3386, 9501, 1222, -50>>, <<5961, 1886, 9042, 1230, -50>>,
                 <<2492, 426, 8577, 1238, -50>>, <<5683, 14753, 8105, 1246, -50>>, <<6805, 11463, 7628, 1254, -50>>,
                 <<13996, 6303, 7145, 1262, -50>>, <<3118, 15022, 6655, 1270, -50>>>>[k]
          [] d = 5 ->
               <<<<16057, 4213, 6160, 1278, -50>>, <<13276, 6010, 5658, 1286, -50>>, <<4884, 3392, 5150, 1294, -50>>,
                 <<1494, 12106, 4635, 1302, -50>>, <<14221, 15131, 4114, 1310, -50>>, <<5535, 11833, 3587, 1318, -50>>,
                 <<3956, 1574, 3054, 1326, -50>>, <<5741, 102, 2514, 1334, -50>>, <<7669, 6781, 1967, 1342, -50>>,
                 <<7037, 4591, 1414, 1350, -50>>, <<1665, 9280, 854, 1358, -50>>, <<6279, 3827, 288, 1366, -50>>,
                 <<3371, 3981, 16099, 1373, -50>>, <<8729, 9105, 15519, 1381, -50>>, <<5906, 2180, 14933, 1389, -50>>,
                 <<11768, 15337, 14339, 1397, -50>>, <<10945, 15173, 13739, 1405, -50>>, <<5004, 1052, 13133, 1413, -50>>,
                 <<12433, 5105, 12519, 1421, -50>>, <<3128, 10314, 11898, 1429, -50>>, <<13068, 16041, 11270, 1437, -50>>,
                 <<13256, 5268, 10636, 1445, -50>>, <<8020, 10127, 9994, 1453, -50>>, <<2251, 13598, 9345, 1461, -50>>,
                 <<1410, 15045, 8689, 1469, -50>>, <<11519, 13832, 8026, 1477, -50>>, <<6412, 9325, 7356, 1485, -50>>,
                 <<9643, 887, 6679, 1493, -50>>, <<12582, 4267, 5994, 1501, -50>>, <<7177, 2446, 5302, 1509, -50>>,
                 <<2344, 11172, 4602, 1517, -50>>, <<7588, 13425, 3895, 1525, -50>>>>[k]
          [] d = 6 ->
               <<<<237, 8571, 3181, 1533, -50>>, <<7362, 12357, 2459, 1541, -50>>, <<7481, 7765, 1730, 1549, -50>>,
                 <<12480, 10543, 993, 1557, -50>>, <<2076, 3673, 249, 1565, -50>>, <<5751, 2902, 15881, 1572, -50>>,
                 <<4436, 7596, 15121, 1580, -50>>, <<12451, 735, 14354, 1588, -50>>, <<11954, 14453, 13578, 1596, -50>>,
                 <<2113, 15347, 12795, 1604, -50>>, <<15481, 2780, 12005, 1612, -50>>, <<3316, 8888, 11206, 1620, -50>>,
                 <<15813, 265, 10400, 1628, -50>>, <<5484, 9047, 9585, 1636, -50>>, <<7405, 1829, 8763, 1644, -50>>,
                 <<8129, 10745, 7932, 1652, -50>>, <<11238, 2392, 7094, 1660, -50>>, <<4570, 8904, 6247, 1668, -50>>,
                 <<9381, 13261, 5392, 1676, -50>>, <<14804, 14829, 4529, 1684, -50>>, <<10626, 12974, 3658, 1692, -50>>,
                 <<3677, 7061, 2779, 1700, -50>>, <<1440, 12839, 1891, 1708, -50>>, <<12063, 13289, 995, 1716, -50>>,
                 <<11589, 7778, 91, 1724, -50>>, <<9501, 12055, 15562, 1731, -50>>, <<15946, 9101, 14641, 1739, -50>>,
                 <<8984, 14667, 13711, 1747, -50>>, <<115, 11734, 12773, 1755, -50>>, <<1523, 16051, 11826, 1763, -50>>,
                 <<9690, 10600, 10871, 1771, -50>>, <<5398, 11132, 9907, 1779, -50>>>>[k]
          [] d = 7 ->
               <<<<2891, 628, 8935, 1787, -50>>, <<719, 11222, 7953, 1795, -50>>, <<14511, 9511, 6963, 1803, -50>>,
                 <<11444, 11247, 5964, 1811, -50>>, <<8549, 15795, 4956, 1819, -50>>, <<7178, 6137, 3940, 1827, -50>>,
                 <<9391, 14407, 2914, 1835, -50>>, <<1572, 7204, 1880, 1843, -50>>, <<3597, 277, 837, 1851, -50>>,
                 <<3278, 9377, 16168, 1858, -50>>, <<5540, 1102, 15107, 1866, -50>>, <<16028, 7586, 14036, 1874, -50>>,
                 <<8351, 11813, 12956, 1882, -50>>, <<5993, 13148, 11867, 1890, -50>>, <<405, 10958, 10769, 1898, -50>>,
                 <<158, 4609, 9662, 1906, -50>>, <<14565, 9851, 8545, 1914, -50>>, <<4526, 9669, 7419, 1922, -50>>,
                 <<13604, 3427, 6284, 1930, -50>>, <<4194, 6878, 5139, 1938, -50>>, <<4977, 3003, 3985, 1946, -50>>,
                 <<12622, 7553, 2821, 1954, -50>>, <<8167, 3512, 1648, 1962, -50>>, <<6181, 6630, 465, 1970, -50>>,
                 <<5616, 16274, 15656, 1977, -50>>, <<6188, 15427, 14454, 1985, -50>>, <<8381, 3456, 13243, 1993, -50>>,
                 <<13453, 12496, 12021, 2001, -50>>, <<7053, 9147, 10790, 2009, -50>>, <<8382, 9159, 9549, 2017, -50>>,
                 <<4652, 11900, 8298, 2025, -50>>, <<243, 353, 7038, 2033, -50>>>>[k]
          [] d = 8 ->
               <<<<320, 6653, 5767, 2041, -50>>, <<13617, 6891, 10435, 1024, -49>>, <<2907, 2364, 9790, 1028, -49>>,
                 <<4579, 14003, 9139, 1032, -49>>, <<14612, 8724, 8484, 1036, -49>>, <<13013, 2596, 7824, 1040, -49>>,
                 <<12953, 11686, 7158, 1044, -49>>, <<11630, 2910, 6488, 1048, -49>>, <<6643, 8720, 5812, 1052, -49>>,
                 <<12384, 12415, 5131, 1056, -49>>, <<10892, 13680, 4445, 1060, -49>>, <<995, 12199, 3754, 1064, -49>>,
                 <<14705, 7654, 3058, 1068, -49>>, <<2524, 16116, 2356, 1072, -49>>, <<13680, 4498, 1650, 1076, -49>>,
                 <<15893, 5254, 938, 1080, -49>>, <<10073, 1684, 221, 1084, -49>>, <<13933, 9855, 15882, 1087, -49>>,
                 <<12838, 13068, 15154, 1091, -49>>, <<8966, 11007, 14421, 1095, -49>>, <<4913, 3356, 13683, 1099, -49>>,
                 <<3708, 6183, 12939, 1103, -49>>, <<8803, 2788, 12190, 1107, -49>>, <<7698, 9240, 11435, 1111, -49>>,
                 <<4708, 8839, 10675, 1115, -49>>, <<4581, 1269, 9910, 1119, -49>>, <<12498, 2598, 9139, 1123, -49>>,
                 <<1308, 12512, 8362, 1127, -49>>, <<9834, 14309, 7580, 1131, -49>>, <<11802, 7675, 6793, 1135, -49>>,
                 <<14146, 8678, 6000, 1139, -49>>, <<7857, 619, 5202, 1143, -49>>>>[k]
          [] d = 9 ->
               <<<<753, 15950, 4397, 1147, -49>>, <<1100, 5203, 3588, 1151, -49>>, <<1225, 831, 2773, 1155, -49>>,
                 <<10285, 2518, 1952, 1159, -49>>, <<5122, 9950, 1125, 1163, -49>>, <<12178, 6426, 293, 1167, -49>>,
                 <<9197, 8016, 15839, 1170, -49>>, <<7148, 14404, 14995, 1174, -49>>, <<1066, 8891, 14146, 1178, -49>>,
                 <<2830, 7545, 13291, 1182, -49>>, <<8397, 10051, 12430, 1186, -49>>, <<14180, 16094, 11563, 1190, -49>>,
                 <<671, 8976, 10691, 1194, -49>>, <<14362, 4763, 9813, 1198, -49>>, <<3905, 3143, 8929, 1202, -49>>,
                 <<341, 3799, 8039, 1206, -49>>, <<2409, 6416, 7143, 1210, -49>>, <<9316, 10679, 6241, 1214, -49>>,
                 <<4359, 16274, 5333, 1218, -49>>, <<4075, 6501, 4420, 1222, -49>>, <<9089, 13813, 3500, 1226, -49>>,
                 <<4121, 5128, 2575, 1230, -49>>, <<7135, 12898, 1643, 1234, -49>>, <<3803, 4041, 706, 1238, -49>>,
                 <<13050, 11009, 16146, 1241, -49>>, <<5129, 721, 15197, 1245, -49>>, <<16311, 5628, 14241, 1249, -49>>,
                 <<1431, 9034, 13279, 1253, -49>>, <<14119, 10621, 12311, 1257, -49>>, <<10186, 10077, 11337, 1261, -49>>,
                 <<11467, 7086, 10357, 1265, -49>>, <<7523, 1334, 9371, 1269, -49>>>>[k]
          [] d = 10 ->
               <<<<4789, 8890, 8378, 1273, -49>>, <<10199, 13055, 7379, 1277, -49>>, <<14793, 13515, 6374, 1281, -49>>,
                 <<10110, 9956, 5363, 1285, -49>>, <<4572, 2063, 4346, 1289, -49>>, <<7101, 5905, 3322, 1293, -49>>,
                 <<10739, 4784, 2292, 1297, -49>>, <<9029, 14770, 1255, 1301, -49>>, <<12401, 2780, 213, 1305, -49>>,
                 <<15412, 1268, 15548, 1308, -49>>, <<13123, 9920, 14492, 1312, -49>>, <<1108, 12038, 13430, 1316, -49>>,
                 <<8217, 7306, 12362, 1320, -49>>, <<14659, 11795, 11287, 1324, -49>>, <<1163, 8808, 10206, 1328, -49>>,
                 <<14504, 14412, 9118, 1332, -49>>, <<3673, 11912, 8024, 1336, -49>>, <<97, 992, 6924, 1340, -49>>,
                 <<2960, 14106, 5816, 1344, -49>>, <<11962, 1788, 4703, 1348, -49>>, <<10947, 12877, 3582, 1352, -49>>,
                 <<663, 14291, 2455, 1356, -49>>, <<15157, 5714, 1322, 1360, -49>>, <<7080, 3219, 182, 1364, -49>>,
                 <<11537, 6490, 15419, 1367, -49>>, <<15006, 15214, 14265, 1371, -49>>, <<4499, 12694, 13105, 1375, -49>>,
                 <<335, 14999, 11938, 1379, -49>>, <<6979, 5431, 10765, 1383, -49>>, <<13051, 61, 9585, 1387, -49>>,
                 <<7708, 14960, 8397, 1391, -49>>, <<13417, 661, 7204, 1395, -49>>>>[k]
          [] d = 11 ->
               <<<<4033, 6004, 6003, 1399, -49>>, <<3109, 14290, 4795, 1403, -49>>, <<1970, 8822, 3581, 1407, -49>>,
                 <<8874, 5670, 2360, 1411, -49>>, <<16244, 4521, 1132, 1415, -49>>, <<666, 5063, 16281, 1418, -49>>,
                 <<4813, 6980, 15039, 1422, -49>>, <<6374, 9960, 13790, 1426, -49>>, <<16360, 13689, 12534, 1430, -49>>,
                 <<13572, 1471, 11272, 1434, -49>>, <<10131, 5760, 10002, 1438, -49>>, <<2337, 9859, 8725, 1442, -49>>,
                 <<3430, 13454, 7441, 1446, -49>>, <<10830, 16232, 6150, 1450, -49>>, <<6135, 1497, 4853, 1454, -49>>,
                 <<4277, 1703, 3548, 1458, -49>>, <<4368, 153, 2236, 1462, -49>>, <<6086, 12918, 916, 1466, -49>>,
                 <<9683, 6917, 15974, 1469, -49>>, <<15979, 14605, 14640, 1473, -49>>, <<9979, 2902, 13300, 1477, -49>>,
                 <<10035, 4262, 11952, 1481, -49>>, <<2304, 1989, 10597, 1485, -49>>, <<6286, 12153, 9234, 1489, -49>>,
                 <<9295, 1674, 7865, 1493, -49>>, <<15602, 3007, 6488, 1497, -49>>, <<13684, 15840, 5103, 1501, -49>>,
                 <<8979, 7092, 3712, 1505, -49>>, <<7512, 9218, 2313, 1509, -49>>, <<15889, 5521, 907, 1513, -49>>,
                 <<8542, 12074, 15877, 1516, -49>>, <<9640, 12179, 14456, 1520, -49>>>>[k]
          [] d = 12 ->
               <<<<11176, 5524, 13028, 1524, -49>>, <<5732, 8181, 11592, 1528, -49>>, <<2871, 3453, 10149, 1532, -49>>,
                 <<12749, 7411, 8698, 1536, -49>>, <<13351, 3360, 7240, 1540, -49>>, <<16031, 7371, 5774, 1544, -49>>,
                 <<16351, 2748, 4301, 1548, -49>>, <<10481, 5563, 2820, 1552, -49>>, <<11574, 15503, 1331, 1556, -49>>,
                 <<622, 15873, 16219, 1559, -49>>, <<8373, 6359, 14716, 1563, -49>>, <<643, 3035, 13205, 1567, -49>>,
                 <<9399, 5587, 11686, 1571, -49>>, <<1677, 13705, 10159, 1575, -49>>, <<10665, 10691, 8625, 1579, -49>>,
                 <<4623, 12619, 7083, 1583, -49>>, <<1583, 2792, 5534, 1587, -49>>, <<3805, 13666, 3976, 1591, -49>>,
                 <<14170, 12161, 2411, 1595, -49>>, <<3408, 14351, 838, 1599, -49>>, <<8406, 3538, 15642, 1602, -49>>,
                 <<1141, 12180, 14053, 1606, -49>>, <<3361, 7196, 12457, 1610, -49>>, <<4674, 4659, 10853, 1614, -49>>,
                 <<11697, 4257, 9241, 1618, -49>>, <<15294, 5679, 7621, 1622, -49>>, <<6957, 8614, 5993, 1626, -49>>,
                 <<11580, 12749, 4357, 1630, -49>>, <<5534, 1390, 2714, 1634, -49>>, <<14978, 6992, 1062, 1638, -49>>,
                 <<1174, 12862, 15786, 1641, -49>>, <<7937, 2302, 14119, 1645, -49>>>>[k]
          [] d = 13 ->
               <<<<14189, 7770, 12443, 1649, -49>>, <<15872, 12571, 10759, 1653, -49>>, <<9577, 10, 9068, 1657, -49>>,
                 <<8914, 2543, 7368, 1661, -49>>, <<11762, 3475, 5660, 1665, -49>>, <<256, 2496, 3944, 1669, -49>>,
                 <<6337, 15677, 2219, 1673, -49>>, <<13439, 9940, 487, 1677, -49>>, <<5652, 1359, 15131, 1680, -49>>,
                 <<481, 6006, 13382, 1684, -49>>, <<16088, 7185, 11625, 1688, -49>>, <<5757, 4588, 9860, 1692, -49>>,
                 <<5345, 14286, 8086, 1696, -49>>, <<2219, 3201, 6305, 1700, -49>>, <<789, 3790, 4515, 1704, -49>>,
                 <<6125, 15742, 2716, 1708, -49>>, <<7580, 5979, 910, 1712, -49>>, <<11554, 6958, 15479, 1715, -49>>,
                 <<8730, 1985, 13656, 1719, -49>>, <<6839, 7133, 11824, 1723, -49>>, <<14287, 5707, 9984, 1727, -49>>,
                 <<7380, 13782, 8135, 1731, -49>>, <<12248, 14662, 6278, 1735, -49>>, <<6544, 8038, 4413, 1739, -49>>,
                 <<1364, 9983, 2539, 1743, -49>>, <<8480, 3802, 657, 1747, -49>>, <<7577, 5570, 15150, 1750, -49>>,
                 <<11786, 14976, 13250, 1754, -49>>, <<2151, 15327, 11342, 1758, -49>>, <<9552, 6311, 9426, 1762, -49>>,
                 <<17, 4004, 7501, 1766, -49>>, <<5796, 8094, 5567, 1770, -49>>>>[k]
          [] d = 14 ->
               <<<<10676, 1888, 3625, 1774, -49>>, <<15514, 1460, 1674, 1778, -49>>, <<5476, 6501, 16098, 1781, -49>>,
                 <<15572, 315, 14130, 1785, -49>>, <<15968, 15362, 12152, 1789, -49>>, <<10294, 2180, 10167, 1793, -49>>,
                 <<2875, 9611, 8172, 1797, -49>>, <<15122, 4576, 6169, 1801, -49>>, <<3606, 3152, 4157, 1805, -49>>,
                 <<7519, 5027, 2136, 1809, -49>>, <<1222, 9893, 106, 1813, -49>>, <<8932, 1055, 14452, 1816, -49>>,
                 <<6415, 10973, 12404, 1820, -49>>, <<2919, 6569, 10348, 1824, -49>>, <<8394, 3917, 8283, 1828, -49>>,
                 <<739, 2709, 6209, 1832, -49>>, <<7712, 2634, 4126, 1836, -49>>, <<8631, 3384, 2034, 1840, -49>>,
                 <<16300, 4649, 16317, 1843, -49>>, <<11470, 6121, 14207, 1847, -49>>, <<8380, 7490, 12088, 1851, -49>>,
                 <<5598, 8447, 9960, 1855, -49>>, <<2418, 8683, 7823, 1859, -49>>, <<15242, 7888, 5677, 1863, -49>>,
                 <<12036, 5755, 3522, 1867, -49>>, <<10648, 1974, 1358, 1871, -49>>, <<13272, 12620, 15568, 1874, -49>>,
                 <<6437, 4617, 13386, 1878, -49>>, <<10182, 10423, 11194, 1882, -49>>, <<12500, 13346, 8993, 1886, -49>>,
                 <<2114, 13078, 6783, 1890, -49>>, <<1263, 9309, 4564, 1894, -49>>>>[k]
          [] d = 15 ->
               <<<<138, 1731, 2336, 1898, -49>>, <<6063, 6419, 98, 1902, -49>>, <<10712, 6681, 14235, 1905, -49>>,
                 <<6498, 2209, 11979, 1909, -49>>, <<2962, 9078, 9713, 1913, -49>>, <<10386, 10595, 7438, 1917, -49>>,
                 <<7034, 6453, 5154, 1921, -49>>, <<4678, 12727, 2860, 1925, -49>>, <<15839, 12724, 557, 1929, -49>>,
                 <<4640, 6138, 14629, 1932, -49>>, <<1486, 9043, 12307, 1936, -49>>, <<4765, 4747, 9976, 1940, -49>>,
                 <<13625, 9326, 7635, 1944, -49>>, <<11580, 6089, 5285, 1948, -49>>, <<15673, 11111, 2925, 1952, -49>>,
                 <<10932, 7701, 556, 1956, -49>>, <<15914, 11934, 14561, 1959, -49>>, <<792, 7120, 12173, 1963, -49>>,
                 <<2028, 9333, 9775, 1967, -49>>, <<7704, 1882, 7368, 1971, -49>>, <<6664, 844, 4951, 1975, -49>>,
                 <<4902, 5911, 2524, 1979, -49>>, <<9186, 391, 88, 1983, -49>>, <<10663, 361, 14026, 1986, -49>>,
                 <<1261, 5514, 11570, 1990, -49>>, <<6439, 15541, 9104, 1994, -49>>, <<3286, 13752, 6629, 1998, -49>>,
                 <<2435, 16223, 4144, 2002, -49>>, <<15292, 6262, 1650, 2006, -49>>, <<4894, 16332, 15529, 2009, -49>>,
                 <<596, 13356, 13015, 2013, -49>>, <<16144, 13410, 10491, 2017, -49>>>>[k]
          [] d = 16 ->
               <<<<544, 16190, 7957, 2021, -49>>, <<1881, 5002, 5414, 2025, -49>>, <<3492, 12308, 2860, 2029, -49>>,
                 <<5890, 5033, 297, 2033, -49>>, <<10376, 15638, 14107, 2036, -49>>, <<2660, 11049, 11524, 2040, -49>>,
                 <<2009, 7342, 8931, 2044, -49>>, <<6050, 2105, 3164, 1024, -48>>, <<2323, 8866, 1857, 1026, -48>>,
                 <<649, 15608, 545, 1028, -48>>, <<12256, 5793, 15613, 1029, -48>>, <<16005, 12037, 14291, 1031, -48>>,
                 <<7537, 1419, 12965, 1033, -48>>, <<15671, 6552, 11633, 1035, -48>>, <<4084, 10901, 10296, 1037, -48>>,
                 <<2394, 14311, 8954, 1039, -48>>, <<7861, 245, 7608, 1041, -48>>, <<1757, 1319, 6256, 1043, -48>>,
                 <<14917, 994, 4899, 1045, -48>>, <<13044, 15503, 3536, 1047, -48>>, <<11400, 11924, 2169, 1049, -48>>,
                 <<9270, 6488, 797, 1051, -48>>, <<6349, 15426, 15803, 1052, -48>>, <<2740, 5817, 14421, 1054, -48>>,
                 <<15339, 10275, 13033, 1056, -48>>, <<12302, 12265, 11640, 1058, -48>>, <<11350, 11633, 10242, 1060, -48>>,
                 <<14227, 8226, 8839, 1062, -48>>, <<6707, 1892, 7431, 1064, -48>>, <<7752, 8861, 6017, 1066, -48>>,
                 <<3961, 12597, 4598, 1068, -48>>, <<15123, 12946, 3174, 1070, -48>>>>[k]
          [] d = 17 ->
               <<<<12289, 9757, 1745, 1072, -48>>, <<16074, 2876, 311, 1074, -48>>, <<14750, 8535, 15255, 1075, -48>>,
                 <<13383, 10197, 13810, 1077, -48>>, <<1082, 7710, 12360, 1079, -48>>, <<137, 920, 10905, 1081, -48>>,
                 <<492, 6059, 9444, 1083, -48>>, <<8898, 6590, 7978, 1085, -48>>, <<16140, 2361, 6507, 1087, -48>>,
                 <<13430, 9604, 5030, 1089, -48>>, <<8784, 11782, 3548, 1091, -48>>, <<10641, 8742, 2061, 1093, -48>>,
                 <<11485, 332, 569, 1095, -48>>, <<4224, 2784, 15455, 1096, -48>>, <<14955, 15944, 13951, 1098, -48>>,
                 <<4673, 6894, 12443, 1100, -48>>, <<332, 8248, 10929, 1102, -48>>, <<12935, 3469, 9410, 1104, -48>>,
                 <<4757, 8791, 7885, 1106, -48>>, <<4040, 7676, 6355, 1108, -48>>, <<6694, 16356, 4819, 1110, -48>>,
                 <<9052, 1911, 3279, 1112, -48>>, <<7886, 13341, 1732, 1114, -48>>, <<397, 1342, 181, 1116, -48>>,
                 <<604, 14913, 15007, 1117, -48>>, <<6580, 4750, 13445, 1119, -48>>, <<444, 3470, 11877, 1121, -48>>,
                 <<13905, 10919, 10303, 1123, -48>>, <<13575, 10563, 8724, 1125, -48>>, <<15649, 2249, 7140, 1127, -48>>,
                 <<3999, 2210, 5550, 1129, -48>>, <<12085, 10292, 3954, 1131, -48>>>>[k]
          [] d = 18 ->
               <<<<8268, 9961, 2353, 1133, -48>>, <<10506, 1064, 747, 1135, -48>>, <<4425, 16218, 15518, 1136, -48>>,
                 <<8867, 6118, 13901, 1138, -48>>, <<10343, 3381, 12278, 1140, -48>>, <<12192, 7855, 10649, 1142, -48>>,
                 <<1815, 3005, 9015, 1144, -48>>, <<16210, 5061, 7375, 1146, -48>>, <<10897, 13874, 5729, 1148, -48>>,
                 <<7384, 12907, 4078, 1150, -48>>, <<11234, 2008, 2422, 1152, -48>>, <<12081, 13794, 759, 1154, -48>>,
                 <<3, 15346, 15475, 1155, -48>>, <<14683, 6510, 13802, 1157, -48>>, <<14328, 3521, 12123, 1159, -48>>,
                 <<6754, 6227, 10438, 1161, -48>>, <<225, 14476, 8747, 1163, -48>>, <<3457, 11732, 7051, 1165, -48>>,
                 <<9235, 14228, 5349, 1167, -48>>, <<10799, 5429, 3642, 1169, -48>>, <<1843, 1568, 1929, 1171, -48>>,
                 <<9281, 2492, 210, 1173, -48>>, <<11337, 8051, 14869, 1174, -48>>, <<3067, 1710, 13139, 1176, -48>>,
                 <<12762, 16084, 11402, 1178, -48>>, <<3626, 1872, 9661, 1180, -48>>, <<4864, 8073, 7913, 1182, -48>>,
                 <<13371, 1768, 6160, 1184, -48>>, <<10114, 15575, 4400, 1186, -48>>, <<9296, 190, 2636, 1188, -48>>,
                 <<9191, 4614, 865, 1190, -48>>, <<8543, 12312, 15472, 1191, -48>>>>[k]
          [] d = 19 ->
               <<<<6551, 6749, 13690, 1193, -48>>, <<2882, 4158, 11902, 1195, -48>>, <<14053, 4387, 10108, 1197, -48>>,
                 <<7891, 7287, 8308, 1199, -48>>, <<1843, 12706, 6502, 1201, -48>>, <<13824, 4108, 4691, 1203, -48>>,
                 <<13061, 14112, 2873, 1205, -48>>, <<2021, 9799, 1050, 1207, -48>>, <<23, 7401, 15605, 1208, -48>>,
                 <<10469, 6767, 13770, 1210, -48>>, <<4469, 7748, 11929, 1212, -48>>, <<2750, 10192, 10082, 1214, -48>>,
                 <<10132, 13948, 8229, 1216, -48>>, <<15522, 2482, 6371, 1218, -48>>, <<8299, 8412, 4506, 1220, -48>>,
                 <<11086, 15202, 2635, 1222, -48>>, <<14212, 6318, 759, 1224, -48>>, <<8483, 14378, 15260, 1225, -48>>,
                 <<1565, 6463, 13372, 1227, -48>>, <<1598, 15190, 11477, 1229, -48>>, <<821, 7641, 9577, 1231, -48>>,
                 <<8332, 49, 7671, 1233, -48>>, <<941, 8649, 5758, 1235, -48>>, <<5091, 521, 3840, 1237, -48>>,
                 <<14936, 8283, 1915, 1239, -48>>, <<8732, 15402, 16368, 1240, -48>>, <<14363, 5342, 14432, 1242, -48>>,
                 <<11047, 10722, 12489, 1244, -48>>, <<11254, 15007, 10540, 1246, -48>>, <<11555, 1663, 8586, 1248, -48>>,
                 <<9007, 3308, 6625, 1250, -48>>, <<1149, 3408, 4658, 1252, -48>>>>[k]
          [] d = 20 ->
               <<<<2392, 1812, 2685, 1254, -48>>, <<11254, 14754, 705, 1256, -48>>, <<10352, 9317, 15104, 1257, -48>>,
                 <<15564, 1734, 13113, 1259, -48>>, <<10487, 8240, 11115, 1261, -48>>, <<11977, 12300, 9111, 1263, -48>>,
                 <<4616, 13765, 7101, 1265, -48>>, <<6240, 12484, 5085, 1267, -48>>, <<2411, 8308, 3063, 1269, -48>>,
                 <<11959, 1086, 1035, 1271, -48>>, <<5045, 7054, 15384, 1272, -48>>, <<1488, 9677, 13343, 1274, -48>>,
                 <<5209, 8805, 11296, 1276, -48>>, <<4244, 4289, 9243, 1278, -48>>, <<3515, 12363, 7183, 1280, -48>>,
                 <<8434, 109, 5118, 1282, -48>>, <<8532, 146, 3046, 1284, -48>>, <<10223, 12324, 967, 1286, -48>>,
                 <<4034, 3726, 15267, 1287, -48>>, <<13763, 6969, 13176, 1289, -48>>, <<14557, 5521, 11079, 1291, -48>>,
                 <<14831, 15616, 8975, 1293, -48>>, <<7122, 4337, 6866, 1295, -48>>, <<850, 4302, 4750, 1297, -48>>,
                 <<5944, 15361, 2627, 1299, -48>>, <<68, 4598, 499, 1301, -48>>, <<10541, 4630, 14748, 1302, -48>>,
                 <<16042, 15309, 12606, 1304, -48>>, <<12134, 3718, 10459, 1306, -48>>, <<11279, 2475, 8305, 1308, -48>>,
                 <<10059, 11431, 6144, 1310, -48>>, <<5564, 14053, 3977, 1312, -48>>>>[k]
          [] d = 21 ->
               <<<<11784, 10191, 1804, 1314, -48>>, <<10446, 16081, 16008, 1315, -48>>, <<175, 15190, 13822, 1317, -48>>,
                 <<12876, 7367, 11630, 1319, -48>>, <<15430, 8849, 9431, 1321, -48>>, <<8002, 3103, 7226, 1323, -48>>,
                 <<7650, 6363, 5014, 1325, -48>>, <<15571, 2096, 2796, 1327, -48>>, <<703, 6539, 571, 1329, -48>>,
                 <<14422, 3156, 14724, 1330, -48>>, <<10321, 8185, 12486, 1332, -48>>, <<8044, 5092, 10242, 1334, -48>>,
                 <<11368, 10112, 7991, 1336, -48>>, <<8208, 6713, 5734, 1338, -48>>, <<3383, 11130, 3470, 1340, -48>>,
                 <<2233, 6830, 1200, 1342, -48>>, <<10619, 10048, 15307, 1343, -48>>, <<2154, 4253, 13024, 1345, -48>>,
                 <<131, 5679, 10734, 1347, -48>>, <<11980, 14177, 8437, 1349, -48>>, <<12887, 13216, 6134, 1351, -48>>,
                 <<11332, 2647, 3825, 1353, -48>>, <<16321, 15089, 1508, 1355, -48>>, <<4618, 1243, 15570, 1356, -48>>,
                 <<2668, 10111, 13240, 1358, -48>>, <<4675, 8777, 10904, 1360, -48>>, <<5371, 13477, 8561, 1362, -48>>,
                 <<18, 7679, 6212, 1364, -48>>, <<795, 7618, 3856, 1366, -48>>, <<4025, 13146, 1493, 1368, -48>>,
                 <<6563, 7731, 15508, 1369, -48>>, <<5797, 7609, 13132, 1371, -48>>>>[k]
          [] d = 22 ->
               <<<<16031, 12631, 10749, 1373, -48>>, <<2956, 6267, 8360, 1375, -48>>, <<14709, 4750, 5964, 1377, -48>>,
                 <<1665, 7935, 3561, 1379, -48>>, <<13038, 15671, 1151, 1381, -48>>, <<272, 11429, 15119, 1382, -48>>,
                 <<13657, 11442, 12696, 1384, -48>>, <<5712, 15565, 10266, 1386, -48>>, <<11418, 7264, 7830, 1388, -48>>,
                 <<762, 2777, 5387, 1390, -48>>, <<9801, 1954, 2937, 1392, -48>>, <<9603, 4649, 480, 1394, -48>>,
                 <<4542, 10714, 14400, 1395, -48>>, <<15921, 3616, 11930, 1397, -48>>, <<50, 15978, 9452, 1399, -48>>,
                 <<12086, 14881, 6968, 1401, -48>>, <<9427, 180, 4478, 1403, -48>>, <<15551, 4494, 1980, 1405, -48>>,
                 <<5334, 11293, 15859, 1406, -48>>, <<3348, 4044, 13348, 1408, -48>>, <<1945, 15368, 10829, 1410, -48>>,
                 <<10408, 12349, 8304, 1412, -48>>, <<5805, 11225, 5772, 1414, -48>>, <<14901, 11847, 3233, 1416, -48>>,
                 <<15863, 14069, 687, 1418, -48>>, <<3792, 1360, 14519, 1419, -48>>, <<7108, 6339, 11959, 1421, -48>>,
                 <<5632, 12476, 9392, 1423, -48>>, <<12508, 3239, 6819, 1425, -48>>, <<8663, 11250, 4238, 1427, -48>>,
                 <<8352, 3593, 1651, 1429, -48>>, <<9993, 12889, 15440, 1430, -48>>>>[k]
          [] d = 23 ->
               <<<<12569, 6223, 12839, 1432, -48>>, <<15615, 16216, 10230, 1434, -48>>, <<2840, 9954, 7615, 1436, -48>>,
                 <<7666, 3672, 4993, 1438, -48>>, <<14917, 13608, 2363, 1440, -48>>, <<9983, 6848, 16111, 1441, -48>>,
                 <<11579, 16012, 13467, 1443, -48>>, <<6212, 8186, 10817, 1445, -48>>, <<13723, 15990, 8159, 1447, -48>>,
                 <<5359, 6511, 5495, 1449, -48>>, <<2085, 12369, 2823, 1451, -48>>, <<9048, 649, 145, 1453, -48>>,
                 <<15571, 3973, 13843, 1454, -48>>, <<11546, 5811, 11150, 1456, -48>>, <<3812, 6016, 8450, 1458, -48>>,
                 <<16165, 4440, 5743, 1460, -48>>, <<7426, 939, 3029, 1462, -48>>, <<2524, 11749, 307, 1464, -48>>,
                 <<10574, 3955, 13963, 1465, -48>>, <<8488, 10180, 11227, 1467, -48>>, <<6521, 13893, 8484, 1469, -48>>,
                 <<15497, 14947, 5734, 1471, -48>>, <<14046, 13197, 2977, 1473, -48>>, <<14137, 8496, 213, 1475, -48>>,
                 <<11928, 698, 13826, 1476, -48>>, <<4151, 6041, 11047, 1478, -48>>, <<4501, 7994, 8261, 1480, -48>>,
                 <<10857, 6411, 5468, 1482, -48>>, <<5296, 1147, 2668, 1484, -48>>, <<3238, 8439, 16244, 1485, -48>>,
                 <<4297, 11757, 13429, 1487, -48>>, <<8666, 10955, 10607, 1489, -48>>>>[k]
          [] d = 24 ->
               <<<<731, 5888, 7778, 1491, -48>>, <<14610, 12792, 4941, 1493, -48>>, <<3084, 15140, 2097, 1495, -48>>,
                 <<1434, 12784, 15630, 1496, -48>>, <<12753, 5578, 12772, 1498, -48>>, <<7952, 9762, 9906, 1500, -48>>,
                 <<7673, 8805, 7033, 1502, -48>>, <<379, 2562, 4153, 1504, -48>>, <<7881, 7270, 1265, 1506, -48>>,
                 <<3428, 6401, 14754, 1507, -48>>, <<10003, 16192, 11851, 1509, -48>>, <<2026, 3731, 8942, 1511, -48>>,
                 <<3657, 1639, 6025, 1513, -48>>, <<6874, 9771, 3100, 1515, -48>>, <<4249, 11598, 168, 1517, -48>>,
                 <<5321, 6974, 13613, 1518, -48>>, <<3839, 12138, 10666, 1520, -48>>, <<10529, 10560, 7712, 1522, -48>>,
                 <<3936, 2096, 4751, 1524, -48>>, <<12354, 2983, 1782, 1526, -48>>, <<15516, 13077, 15189, 1527, -48>>,
                 <<10133, 15849, 12205, 1529, -48>>, <<9895, 11153, 9214, 1531, -48>>, <<12705, 15228, 6215, 1533, -48>>,
                 <<674, 11546, 3209, 1535, -48>>, <<5666, 16344, 195, 1537, -48>>, <<10988, 13094, 13558, 1538, -48>>,
                 <<547, 1652, 10530, 1540, -48>>, <<7999, 14639, 7493, 1542, -48>>, <<2065, 2760, 4450, 1544, -48>>,
                 <<1218, 15021, 1398, 1546, -48>>, <<8147, 2125, 14724, 1547, -48>>>>[k]
          [] d = 25 ->
               <<<<9761, 13080, 11657, 1549, -48>>, <<9953, 14973, 8583, 1551, -48>>, <<13219, 7659, 5502, 1553, -48>>,
                 <<8279, 7378, 2413, 1555, -48>>, <<836, 13985, 15700, 1556, -48>>, <<13585, 10950, 12596, 1558, -48>>,
                 <<4293, 14515, 9484, 1560, -48>>, <<13249, 8149, 6365, 1562, -48>>, <<15817, 8093, 3238, 1564, -48>>,
                 <<4354, 14203, 103, 1566, -48>>, <<4587, 9949, 13345, 1567, -48>>, <<10092, 11571, 10195, 1569, -48>>,
                 <<15052, 2541, 7038, 1571, -48>>, <<14262, 15483, 3872, 1573, -48>>, <<3128, 1101, 700, 1575, -48>>,
                 <<10433, 8401, 13903, 1576, -48>>, <<44, 4473, 10715, 1578, -48>>, <<1972, 5555, 7519, 1580, -48>>,
                 <<14077, 11503, 4315, 1582, -48>>, <<2065, 5791, 1104, 1584, -48>>, <<14177, 4656, 14269, 1585, -48>>,
                 <<970, 7957, 11042, 1587, -48>>, <<11920, 15547, 7807, 1589, -48>>, <<15198, 10900, 4565, 1591, -48>>,
                 <<12366, 10256, 1315, 1593, -48>>, <<5604, 13471, 14441, 1594, -48>>, <<14096, 4016, 11176, 1596, -48>>,
                 <<8495, 14517, 7902, 1598, -48>>, <<9225, 12061, 4621, 1600, -48>>, <<4568, 12889, 1332, 1602, -48>>,
                 <<16193, 472, 14420, 1603, -48>>, <<861, 7437, 11115, 1605, -48>>>>[k]
          [] d = 26 ->
               <<<<14257, 869, 7803, 1607, -48>>, <<14388, 13395, 4482, 1609, -48>>, <<9041, 12103, 1154, 1611, -48>>,
                 <<6625, 13233, 14202, 1612, -48>>, <<16181, 257, 10859, 1614, -48>>, <<14607, 5801, 7507, 1616, -48>>,
                 <<12196, 13337, 4147, 1618, -48>>, <<3490, 6338, 780, 1620, -48>>, <<41, 1044, 13789, 1621, -48>>,
                 <<14033, 13695, 10405, 1623, -48>>, <<9130, 11382, 7014, 1625, -48>>, <<15164, 10344, 3615, 1627, -48>>,
                 <<13445, 10439, 208, 1629, -48>>, <<2304, 11524, 13177, 1630, -48>>, <<13472, 13454, 9754, 1632, -48>>,
                 <<13778, 16088, 6323, 1634, -48>>, <<3455, 2899, 2885, 1636, -48>>, <<16142, 6510, 15822, 1637, -48>>,
                 <<4193, 10397, 12367, 1639, -48>>, <<2518, 14415, 8904, 1641, -48>>, <<13901, 2037, 5434, 1643, -48>>,
                 <<8992, 5890, 1955, 1645, -48>>, <<8239, 9446, 14852, 1646, -48>>, <<16339, 12562, 11357, 1648, -48>>,
                 <<5868, 15097, 7854, 1650, -48>>, <<15577, 522, 4344, 1652, -48>>, <<2939, 1465, 825, 1654, -48>>,
                 <<7990, 1397, 13682, 1655, -48>>, <<5876, 177, 10147, 1657, -48>>, <<5152, 14046, 6603, 1659, -48>>,
                 <<15023, 10093, 3052, 1661, -48>>, <<12565, 4561, 15877, 1662, -48>>>>[k]
          [] d = 27 ->
               <<<<8275, 13691, 12309, 1664, -48>>, <<13295, 4572, 8734, 1666, -48>>, <<6644, 9831, 5150, 1668, -48>>,
                 <<762, 12941, 1558, 1670, -48>>, <<8737, 13759, 14342, 1671, -48>>, <<11536, 12144, 10734, 1673, -48>>,
                 <<7165, 7954, 7118, 1675, -48>>, <<10663, 1046, 3494, 1677, -48>>, <<4954, 7663, 16245, 1678, -48>>,
                 <<6381, 11278, 12604, 1680, -48>>, <<15560, 11749, 8955, 1682, -48>>, <<989, 8936, 5298, 1684, -48>>,
                 <<13743, 2694, 1633, 1686, -48>>, <<7249, 9268, 14343, 1687, -48>>, <<1126, 12131, 10661, 1689, -48>>,
                 <<15647, 11140, 6971, 1691, -48>>, <<6212, 6156, 3273, 1693, -48>>, <<10796, 13419, 15950, 1694, -48>>,
                 <<2495, 21, 12236, 1696, -48>>, <<4221, 14971, 8512, 1698, -48>>, <<6776, 8976, 4781, 1700, -48>>,
                 <<1624, 14663, 1041, 1702, -48>>, <<13657, 15505, 13677, 1703, -48>>, <<2895, 11363, 9921, 1705, -48>>,
                 <<11941, 2093, 6157, 1707, -48>>, <<2141, 3940, 2384, 1709, -48>>, <<1044, 377, 14987, 1710, -48>>,
                 <<4093, 7647, 11197, 1712, -48>>, <<7397, 9225, 7399, 1714, -48>>, <<7734, 4970, 3593, 1716, -48>>,
                 <<2548, 11125, 16162, 1717, -48>>, <<6335, 11164, 12339, 1719, -48>>>>[k]
          [] d = 28 ->
               <<<<1492, 4947, 8508, 1721, -48>>, <<3851, 8716, 4668, 1723, -48>>, <<13533, 5946, 820, 1725, -48>>,
                 <<14946, 12881, 13347, 1726, -48>>, <<9550, 12996, 9482, 1728, -48>>, <<15865, 6149, 5609, 1730, -48>>,
                 <<3927, 8585, 1727, 1732, -48>>, <<9987, 3777, 14221, 1733, -48>>, <<5430, 7970, 10322, 1735, -48>>,
                 <<11469, 4638, 6415, 1737, -48>>, <<842, 10026, 2499, 1739, -48>>, <<12496, 7607, 14959, 1740, -48>>,
                 <<4140, 13627, 11026, 1742, -48>>, <<16074, 11559, 7085, 1744, -48>>, <<7360, 1265, 3136, 1746, -48>>,
                 <<3276, 15371, 15561, 1747, -48>>, <<13393, 4584, 11595, 1749, -48>>, <<15197, 1533, 7620, 1751, -48>>,
                 <<3235, 6078, 3636, 1753, -48>>, <<5508, 1693, 16028, 1754, -48>>, <<1544, 4623, 12027, 1756, -48>>,
                 <<4324, 14727, 8017, 1758, -48>>, <<11131, 15481, 3999, 1760, -48>>, <<3540, 6746, 16357, 1761, -48>>,
                 <<12971, 4764, 12322, 1763, -48>>, <<5994, 9397, 8278, 1765, -48>>, <<15395, 4119, 4226, 1767, -48>>,
                 <<9117, 5176, 165, 1769, -48>>, <<4940, 12427, 12479, 1770, -48>>, <<4951, 9348, 8401, 1772, -48>>,
                 <<11922, 12183, 4314, 1774, -48>>, <<12935, 4409, 219, 1776, -48>>>>[k]
          [] d = 29 ->
               <<<<12145, 2270, 12499, 1777, -48>>, <<14396, 5626, 8386, 1779, -48>>, <<8844, 14338, 4264, 1781, -48>>,
                 <<1719, 11882, 134, 1783, -48>>, <<16328, 14501, 12379, 1784, -48>>, <<11138, 5674, 8232, 1786, -48>>,
                 <<10844, 1644, 4076, 1788, -48>>, <<8073, 2272, 16295, 1789, -48>>, <<12523, 7418, 12121, 1791, -48>>,
                 <<1831, 560, 7939, 1793, -48>>, <<3477, 14325, 3747, 1795, -48>>, <<12872, 15806, 15931, 1796, -48>>,
                 <<9744, 4865, 11723, 1798, -48>>, <<7286, 14130, 7505, 1800, -48>>, <<3007, 10694, 3279, 1802, -48>>,
                 <<11502, 10801, 15428, 1803, -48>>, <<15300, 14313, 11184, 1805, -48>>, <<14013, 4707, 6932, 1807, -48>>,
                 <<7960, 14612, 2670, 1809, -48>>, <<14543, 11120, 14784, 1810, -48>>, <<2721, 10478, 10505, 1812, -48>>,
                 <<7688, 12545, 6217, 1814, -48>>, <<16197, 799, 1921, 1816, -48>>, <<15706, 7870, 13999, 1817, -48>>,
                 <<10758, 851, 9685, 1819, -48>>, <<6611, 12371, 5361, 1821, -48>>, <<9230, 9523, 1029, 1823, -48>>,
                 <<8899, 8553, 13072, 1824, -48>>, <<13003, 9322, 8722, 1826, -48>>, <<13250, 11692, 4363, 1828, -48>>,
                 <<2056, 15525, 16379, 1829, -48>>, <<5321, 4297, 12003, 1831, -48>>>>[k]
          [] d = 30 ->
               <<<<503, 10639, 7617, 1833, -48>>, <<14928, 1643, 3223, 1835, -48>>, <<11093, 9941, 15203, 1836, -48>>,
                 <<1368, 2626, 10791, 1838, -48>>, <<15218, 12326, 6369, 1840, -48>>, <<905, 6138, 1939, 1842, -48>>,
                 <<5712, 305, 13884, 1843, -48>>, <<12102, 11074, 9435, 1845, -48>>, <<3253, 5540, 4978, 1847, -48>>,
                 <<12219, 16331, 511, 1849, -48>>, <<7232, 10543, 12420, 1850, -48>>, <<6401, 4421, 7936, 1852, -48>>,
                 <<12162, 14211, 3442, 1854, -48>>, <<11298, 7008, 15324, 1855, -48>>, <<7693, 15442, 10812, 1857, -48>>,
                 <<5954, 6607, 6292, 1859, -48>>, <<11408, 13133, 1762, 1861, -48>>, <<13731, 2115, 13608, 1862, -48>>,
                 <<3308, 6184, 9060, 1864, -48>>, <<4032, 8817, 4503, 1866, -48>>, <<7746, 9877, 16321, 1867, -48>>,
                 <<7020, 9227, 11746, 1869, -48>>, <<11537, 6729, 7162, 1871, -48>>, <<15322, 2246, 2569, 1873, -48>>,
                 <<13131, 12025, 14350, 1874, -48>>, <<442, 3161, 9739, 1876, -48>>, <<6237, 8283, 5118, 1878, -48>>,
                 <<11082, 10871, 488, 1880, -48>>, <<12641, 10788, 12233, 1881, -48>>, <<9325, 7897, 7585, 1883, -48>>,
                 <<273, 2061, 2928, 1885, -48>>, <<1737, 9526, 14645, 1886, -48>>>>[k]
          [] d = 31 ->
               <<<<14323, 13771, 9969, 1888, -48>>, <<6606, 14661, 5284, 1890, -48>>, <<13422, 12057, 590, 1892, -48>>,
                 <<4815, 5824, 12271, 1893, -48>>, <<717, 12208, 7558, 1895, -48>>, <<5412, 14688, 2836, 1897, -48>>,
                 <<7534, 13128, 14489, 1898, -48>>, <<12845, 7391, 9749, 1900, -48>>, <<11459, 13725, 4999, 1902, -48>>,
                 <<10614, 15609, 240, 1904, -48>>, <<1903, 12907, 11856, 1905, -48>>, <<10432, 5481, 7079, 1907, -48>>,
                 <<12892, 9580, 2292, 1909, -48>>, <<3106, 8684, 13880, 1910, -48>>, <<8400, 2655, 9075, 1912, -48>>,
                 <<7703, 7742, 4260, 1914, -48>>, <<13442, 7424, 15820, 1915, -48>>, <<6035, 1566, 10987, 1917, -48>>,
                 <<15789, 6414, 6144, 1919, -48>>, <<8224, 5450, 1292, 1921, -48>>, <<15143, 14920, 12814, 1922, -48>>,
                 <<3561, 1922, 7944, 1924, -48>>, <<6775, 15470, 3063, 1926, -48>>, <<9682, 6277, 14558, 1927, -48>>,
                 <<14314, 6975, 9659, 1929, -48>>, <<7062, 1045, 4751, 1931, -48>>, <<7844, 4734, 16217, 1932, -48>>,
                 <<4557, 1523, 11290, 1934, -48>>, <<2240, 7660, 6353, 1936, -48>>, <<6675, 6625, 1407, 1938, -48>>,
                 <<8022, 14667, 12835, 1939, -48>>, <<13579, 15266, 7870, 1941, -48>>>>[k]
          [] d = 32 ->
               <<<<15009, 8287, 2896, 1943, -48>>, <<4735, 9979, 14296, 1944, -48>>, <<8707, 3821, 9303, 1946, -48>>,
                 <<4471, 6063, 4300, 1948, -48>>, <<3108, 185, 15672, 1949, -48>>, <<69, 2436, 10650, 1951, -48>>,
                 <<7947, 12680, 5618, 1953, -48>>, <<7327, 14399, 577, 1955, -48>>, <<12326, 7457, 11911, 1956, -48>>,
                 <<5052, 8104, 6851, 1958, -48>>, <<1136, 16204, 1781, 1960, -48>>, <<596, 15238, 13086, 1961, -48>>,
                 <<4211, 5071, 7998, 1963, -48>>, <<13520, 1952, 2900, 1965, -48>>, <<14445, 5747, 14176, 1966, -48>>,
                 <<10058, 16321, 9058, 1968, -48>>, <<4192, 771, 3932, 1970, -48>>, <<1448, 8114, 15179, 1971, -48>>,
                 <<7198, 5447, 10033, 1973, -48>>, <<11193, 9020, 4877, 1975, -48>>, <<3951, 2315, 16096, 1976, -48>>,
                 <<9532, 1580, 10921, 1978, -48>>, <<3611, 6682, 5736, 1980, -48>>, <<11780, 1101, 542, 1982, -48>>,
                 <<11258, 1088, 11722, 1983, -48>>, <<12800, 6508, 6508, 1985, -48>>, <<11546, 843, 1285, 1987, -48>>,
                 <<3413, 343, 12436, 1988, -48>>, <<1474, 4873, 7193, 1990, -48>>, <<3192, 14299, 1940, 1992, -48>>,
                 <<6805, 12103, 13062, 1993, -48>>, <<11323, 14535, 7790, 1995, -48>>>>[k]
          [] d = 33 ->
               <<<<155, 5078, 2509, 1997, -48>>, <<6630, 16364, 13601, 1998, -48>>, <<15710, 15492, 8300, 2000, -48>>,
                 <<13132, 2329, 2990, 2002, -48>>, <<1793, 9509, 14053, 2003, -48>>, <<1757, 4129, 8723, 2005, -48>>,
                 <<1097, 2440, 3383, 2007, -48>>, <<5052, 4308, 14417, 2008, -48>>, <<3260, 9600, 9057, 2010, -48>>,
                 <<2523, 1798, 3688, 2012, -48>>, <<10424, 13536, 14692, 2013, -48>>, <<2562, 11914, 9303, 2015, -48>>,
                 <<4474, 13181, 3904, 2017, -48>>, <<9714, 820, 14880, 2018, -48>>, <<12614, 7466, 9461, 2020, -48>>,
                 <<8299, 218, 4033, 2022, -48>>, <<9063, 11710, 14978, 2023, -48>>, <<11603, 9041, 9530, 2025, -48>>,
                 <<13399, 8462, 4072, 2027, -48>>, <<12728, 9840, 14988, 2028, -48>>, <<8649, 13042, 9510, 2030, -48>>,
                 <<1011, 1551, 4023, 2032, -48>>, <<6845, 8001, 14909, 2033, -48>>, <<11192, 15876, 9401, 2035, -48>>,
                 <<16280, 8659, 3884, 2037, -48>>, <<8740, 2602, 14741, 2038, -48>>, <<8767, 13955, 9203, 2040, -48>>,
                 <<4575, 9818, 3656, 2042, -48>>, <<1564, 6442, 14483, 2043, -48>>, <<5925, 3694, 8916, 2045, -48>>,
                 <<8260, 1442, 3339, 2047, -48>>, <<16367, 16160, 7067, 1024, -47>>>>[k]
          [] d = 34 ->
               <<<<3007, 7140, 4269, 1025, -47>>, <<9694, 14552, 1465, 1026, -47>>, <<558, 5564, 15041, 1026, -47>>,
                 <<5662, 12876, 12227, 1027, -47>>, <<6317, 3655, 9409, 1028, -47>>, <<617, 10603, 6585, 1029, -47>>,
                 <<3441, 885, 3757, 1030, -47>>, <<13684, 7203, 923, 1031, -47>>, <<14259, 13108, 14468, 1031, -47>>,
                 <<4864, 2150, 11625, 1032, -47>>, <<1983, 7030, 8776, 1033, -47>>, <<6116, 11298, 5922, 1034, -47>>,
                 <<1784, 14889, 3063, 1035, -47>>, <<6677, 1352, 200, 1036, -47>>, <<6119, 3390, 13715, 1036, -47>>,
                 <<2223, 4553, 10841, 1037, -47>>, <<13889, 4774, 7962, 1038, -47>>, <<11269, 3989, 5078, 1039, -47>>,
                 <<14070, 2131, 2189, 1040, -47>>, <<9636, 15519, 15678, 1040, -47>>, <<2103, 11319, 12779, 1041, -47>>,
                 <<12389, 5848, 9875, 1042, -47>>, <<12673, 15426, 6965, 1043, -47>>, <<8304, 7219, 4051, 1044, -47>>,
                 <<5036, 13929, 1131, 1045, -47>>, <<9032, 2722, 14591, 1045, -47>>, <<10479, 6301, 11661, 1046, -47>>,
                 <<16349, 8216, 8726, 1047, -47>>, <<1260, 8403, 5786, 1048, -47>>, <<5770, 6794, 2841, 1049, -47>>,
                 <<5310, 3325, 16275, 1049, -47>>, <<8488, 14314, 13319, 1050, -47>>>>[k]
          [] d = 35 ->
               <<<<7934, 6928, 10359, 1051, -47>>, <<13076, 13869, 7393, 1052, -47>>, <<977, 2305, 4423, 1053, -47>>,
                 <<14650, 4936, 1447, 1054, -47>>, <<15599, 5315, 14850, 1054, -47>>, <<14883, 3376, 11864, 1055, -47>>,
                 <<7597, 15438, 8872, 1056, -47>>, <<5624, 8667, 5876, 1057, -47>>, <<4879, 15766, 2874, 1058, -47>>,
                 <<1684, 3902, 16252, 1058, -47>>, <<9160, 5777, 13240, 1059, -47>>, <<8071, 4943, 10223, 1060, -47>>,
                 <<12361, 1334, 7201, 1061, -47>>, <<3620, 11270, 4173, 1062, -47>>, <<13003, 1916, 1141, 1063, -47>>,
                 <<6541, 5977, 14487, 1063, -47>>, <<16216, 7002, 11444, 1064, -47>>, <<8889, 4928, 8396, 1065, -47>>,
                 <<984, 16073, 5342, 1066, -47>>, <<9343, 7603, 2284, 1067, -47>>, <<2070, 12223, 15604, 1067, -47>>,
                 <<13220, 13482, 12535, 1068, -47>>, <<11728, 11317, 9461, 1069, -47>>, <<16095, 5662, 6382, 1070, -47>>,
                 <<12475, 12837, 3297, 1071, -47>>, <<3819, 9, 208, 1072, -47>>, <<9877, 16264, 13496, 1072, -47>>,
                 <<1670, 12387, 10396, 1073, -47>>, <<16167, 4695, 7291, 1074, -47>>, <<8838, 9510, 4180, 1075, -47>>,
                 <<1107, 10382, 1064, 1076, -47>>, <<14814, 7245, 14327, 1076, -47>>>>[k]
          [] d = 36 ->
               <<<<6686, 37, 11201, 1077, -47>>, <<15785, 5075, 8069, 1078, -47>>, <<16060, 5912, 4932, 1079, -47>>,
                 <<14643, 2483, 1790, 1080, -47>>, <<2708, 11108, 15026, 1080, -47>>, <<4613, 15337, 11873, 1081, -47>>,
                 <<12369, 15106, 8715, 1082, -47>>, <<2026, 10352, 5552, 1083, -47>>, <<15592, 1008, 2384, 1084, -47>>,
                 <<13572, 3396, 15594, 1084, -47>>, <<6050, 1067, 12415, 1085, -47>>, <<3531, 10340, 9230, 1086, -47>>,
                 <<556, 14767, 6040, 1087, -47>>, <<8474, 14283, 2845, 1088, -47>>, <<6291, 8825, 16029, 1088, -47>>,
                 <<6205, 14712, 12823, 1089, -47>>, <<4449, 15496, 9612, 1090, -47>>, <<14069, 11112, 6396, 1091, -47>>,
                 <<15768, 1497, 3175, 1092, -47>>, <<7051, 2971, 16332, 1092, -47>>, <<2239, 15469, 13099, 1093, -47>>,
                 <<16078, 6158, 9862, 1094, -47>>, <<14582, 7744, 6619, 1095, -47>>, <<13350, 3778, 3371, 1096, -47>>,
                 <<12016, 10580, 117, 1097, -47>>, <<10650, 11702, 13242, 1097, -47>>, <<9740, 7080, 9978, 1098, -47>>,
                 <<10206, 13034, 6708, 1099, -47>>, <<13395, 13116, 3433, 1100, -47>>, <<4696, 7263, 153, 1101, -47>>,
                 <<2697, 11794, 13251, 1101, -47>>, <<10029, 10261, 9960, 1102, -47>>>>[k]
          [] d = 37 ->
               <<<<13367, 2601, 6664, 1103, -47>>, <<16200, 5134, 3362, 1104, -47>>, <<6065, 1413, 55, 1105, -47>>,
                 <<3691, 7757, 13126, 1105, -47>>, <<13857, 7718, 9808, 1106, -47>>, <<9005, 1234, 6485, 1107, -47>>,
                 <<11159, 4624, 3156, 1108, -47>>, <<10003, 1441, 16206, 1108, -47>>, <<12040, 8005, 12866, 1109, -47>>,
                 <<7819, 7869, 9521, 1110, -47>>, <<4705, 969, 6171, 1111, -47>>, <<10497, 3625, 2815, 1112, -47>>,
                 <<655, 15775, 15837, 1112, -47>>, <<226, 4586, 12471, 1113, -47>>, <<1924, 2763, 9099, 1114, -47>>,
                 <<15276, 10242, 5721, 1115, -47>>, <<1096, 10578, 2338, 1116, -47>>, <<2546, 3705, 15334, 1116, -47>>,
                 <<14076, 5944, 11940, 1117, -47>>, <<14185, 849, 8541, 1118, -47>>, <<14573, 4740, 5136, 1119, -47>>,
                 <<10994, 1170, 1726, 1120, -47>>, <<16019, 6459, 14694, 1120, -47>>, <<9889, 4161, 11273, 1121, -47>>,
                 <<6050, 10596, 7846, 1122, -47>>, <<1997, 9317, 4414, 1123, -47>>, <<12049, 260, 977, 1124, -47>>,
                 <<1809, 16132, 13917, 1124, -47>>, <<2855, 7716, 10469, 1125, -47>>, <<14432, 7717, 7015, 1126, -47>>,
                 <<3458, 16074, 3555, 1127, -47>>, <<2822, 16338, 90, 1128, -47>>>>[k]
          [] d = 38 ->
               <<<<13087, 8446, 13004, 1128, -47>>, <<2485, 8721, 9528, 1129, -47>>, <<5226, 714, 6047, 1130, -47>>,
                 <<6804, 747, 2560, 1131, -47>>, <<9537, 8757, 15451, 1131, -47>>, <<16188, 8297, 11953, 1132, -47>>,
                 <<13573, 15689, 8449, 1133, -47>>, <<5332, 14486, 4940, 1134, -47>>, <<11931, 4624, 1426, 1135, -47>>,
                 <<5126, 2426, 14290, 1135, -47>>, <<6269, 7828, 10764, 1136, -47>>, <<4382, 4384, 7233, 1137, -47>>,
                 <<5314, 8415, 3696, 1138, -47>>, <<15361, 3474, 154, 1139, -47>>, <<8487, 5884, 12990, 1139, -47>>,
                 <<8257, 15581, 9436, 1140, -47>>, <<5910, 16119, 5877, 1141, -47>>, <<9513, 7435, 2313, 1142, -47>>,
                 <<11191, 5851, 15127, 1142, -47>>, <<3517, 11305, 11551, 1143, -47>>, <<12274, 7349, 7970, 1144, -47>>,
                 <<14541, 10306, 4383, 1145, -47>>, <<4222, 3730, 791, 1146, -47>>, <<8441, 3941, 13577, 1146, -47>>,
                 <<5609, 10878, 9973, 1147, -47>>, <<7357, 8094, 6364, 1148, -47>>, <<9376, 11911, 2749, 1149, -47>>,
                 <<7804, 5883, 15513, 1149, -47>>, <<15611, 6331, 11887, 1150, -47>>, <<13446, 13194, 8255, 1151, -47>>,
                 <<15174, 10025, 4618, 1152, -47>>, <<2341, 13147, 975, 1153, -47>>>>[k]
          [] d = 39 ->
               <<<<6093, 6112, 13711, 1153, -47>>, <<8871, 5243, 10057, 1154, -47>>, <<9952, 10478, 6397, 1155, -47>>,
                 <<9059, 5371, 2732, 1156, -47>>, <<6370, 6244, 15445, 1156, -47>>, <<2506, 13035, 11768, 1157, -47>>,
                 <<14928, 9297, 8086, 1158, -47>>, <<12393, 11354, 4398, 1159, -47>>, <<13260, 2759, 705, 1160, -47>>,
                 <<3575, 16219, 13389, 1160, -47>>, <<2599, 2519, 9685, 1161, -47>>, <<13664, 10749, 5974, 1162, -47>>,
                 <<7784, 8081, 2258, 1163, -47>>, <<5578, 10836, 14920, 1163, -47>>, <<11735, 2568, 11193, 1164, -47>>,
                 <<15012, 15984, 7459, 1165, -47>>, <<4618, 1871, 3721, 1166, -47>>, <<2985, 9318, 16360, 1166, -47>>,
                 <<232, 5496, 12610, 1167, -47>>, <<3314, 6727, 8854, 1168, -47>>, <<3258, 12950, 5092, 1169, -47>>,
                 <<7928, 7719, 1325, 1170, -47>>, <<9261, 7357, 13936, 1170, -47>>, <<16033, 11802, 10157, 1171, -47>>,
                 <<4708, 4610, 6373, 1172, -47>>, <<1355, 2102, 2583, 1173, -47>>, <<16119, 4216, 15171, 1173, -47>>,
                 <<10450, 10893, 11369, 1174, -47>>, <<11785, 5686, 7562, 1175, -47>>, <<15258, 4918, 3749, 1176, -47>>,
                 <<71, 8529, 16314, 1176, -47>>, <<11423, 71, 12490, 1177, -47>>>>[k]
          [] d = 40 ->
               <<<<13048, 12253, 8659, 1178, -47>>, <<1909, 12246, 4823, 1179, -47>>, <<8195, 16371, 981, 1180, -47>>,
                 <<13401, 8184, 13518, 1180, -47>>, <<15866, 4008, 9665, 1181, -47>>, <<14389, 3782, 5806, 1182, -47>>,
                 <<8229, 7445, 1941, 1183, -47>>, <<13486, 14935, 14454, 1183, -47>>, <<13959, 9808, 10578, 1184, -47>>,
                 <<10284, 8387, 6696, 1185, -47>>, <<3564, 10611, 2808, 1186, -47>>, <<11746, 34, 15299, 1186, -47>>,
                 <<4083, 9365, 11399, 1187, -47>>, <<15831, 5773, 7494, 1188, -47>>, <<787, 5584, 3583, 1189, -47>>,
                 <<11510, 8734, 16050, 1189, -47>>, <<2725, 15165, 12127, 1190, -47>>, <<11535, 8430, 8199, 1191, -47>>,
                 <<9973, 4854, 4265, 1192, -47>>, <<3302, 4376, 325, 1193, -47>>, <<13634, 6934, 12763, 1193, -47>>,
                 <<14393, 12469, 8811, 1194, -47>>, <<12236, 4536, 4854, 1195, -47>>, <<14284, 15842, 890, 1196, -47>>,
                 <<11741, 13559, 13305, 1196, -47>>, <<12658, 14010, 9330, 1197, -47>>, <<9170, 751, 5350, 1198, -47>>,
                 <<10261, 6489, 1363, 1199, -47>>, <<8998, 14780, 13754, 1199, -47>>, <<15298, 9179, 9756, 1200, -47>>,
                 <<6778, 6011, 5752, 1201, -47>>, <<10671, 5214, 1742, 1202, -47>>>>[k]
          [] d = 41 ->
               <<<<5531, 6729, 14110, 1202, -47>>, <<3144, 10495, 10088, 1203, -47>>, <<15765, 67, 6061, 1204, -47>>,
                 <<6965, 8155, 2027, 1205, -47>>, <<6321, 1929, 14372, 1205, -47>>, <<11111, 14097, 10326, 1206, -47>>,
                 <<2696, 11832, 6275, 1207, -47>>, <<12060, 11456, 2218, 1208, -47>>, <<5124, 12911, 14539, 1208, -47>>,
                 <<13810, 16135, 10470, 1209, -47>>, <<4977, 4686, 6396, 1210, -47>>, <<11492, 11270, 2315, 1211, -47>>,
                 <<1155, 3061, 14613, 1211, -47>>, <<7773, 12765, 10520, 1212, -47>>, <<90, 7556, 6422, 1213, -47>>,
                 <<12861, 3756, 2318, 1214, -47>>, <<15769, 1307, 14592, 1214, -47>>, <<11746, 149, 10476, 1215, -47>>,
                 <<4192, 222, 6354, 1216, -47>>, <<13366, 1465, 2226, 1217, -47>>, <<10848, 3820, 14476, 1217, -47>>,
                 <<1458, 7227, 10336, 1218, -47>>, <<6879, 11625, 6190, 1219, -47>>, <<109, 572, 2039, 1220, -47>>,
                 <<3778, 6775, 14265, 1220, -47>>, <<8223, 13791, 10101, 1221, -47>>, <<4252, 5177, 5932, 1222, -47>>,
                 <<15921, 13640, 1756, 1223, -47>>, <<2222, 6355, 13959, 1223, -47>>, <<4545, 16028, 9771, 1224, -47>>,
                 <<15604, 9832, 5578, 1225, -47>>, <<12207, 4093, 1379, 1226, -47>>>>[k]
          [] d = 42 ->
               <<<<4403, 15135, 13557, 1226, -47>>, <<2723, 10130, 9346, 1227, -47>>, <<1788, 5403, 5129, 1228, -47>>,
                 <<13083, 894, 906, 1229, -47>>, <<15802, 12929, 13060, 1229, -47>>, <<5998, 8681, 8825, 1230, -47>>,
                 <<12980, 4473, 4584, 1231, -47>>, <<989, 248, 337, 1232, -47>>, <<288, 12329, 12467, 1232, -47>>,
                 <<8849, 7889, 8208, 1233, -47>>, <<8741, 3254, 3943, 1234, -47>>, <<15280, 14748, 16055, 1234, -47>>,
                 <<11496, 9545, 11778, 1235, -47>>, <<13665, 3969, 7495, 1236, -47>>, <<5778, 14346, 3205, 1237, -47>>,
                 <<5075, 7848, 15294, 1237, -47>>, <<12894, 800, 10993, 1238, -47>>, <<14667, 9528, 6685, 1239, -47>>,
                 <<12698, 1205, 2372, 1240, -47>>, <<9769, 8540, 14436, 1240, -47>>, <<9147, 15090, 10110, 1241, -47>>,
                 <<14579, 4412, 5779, 1242, -47>>, <<13916, 9216, 1441, 1243, -47>>, <<11873, 13059, 13481, 1243, -47>>,
                 <<13648, 15882, 9131, 1244, -47>>, <<8543, 1243, 4776, 1245, -47>>, <<2725, 1851, 414, 1246, -47>>,
                 <<2845, 1263, 12430, 1246, -47>>, <<16044, 15804, 8055, 1247, -47>>, <<791, 12650, 3675, 1248, -47>>,
                 <<14346, 8123, 15673, 1248, -47>>, <<16153, 2167, 11281, 1249, -47>>>>[k]
          [] d = 43 ->
               <<<<15291, 11107, 6882, 1250, -47>>, <<4942, 2117, 2478, 1251, -47>>, <<11546, 7905, 14451, 1251, -47>>,
                 <<12873, 12030, 10034, 1252, -47>>, <<3567, 14434, 5611, 1253, -47>>, <<11528, 15057, 1182, 1254, -47>>,
                 <<15989, 13842, 13131, 1254, -47>>, <<13059, 10731, 8690, 1255, -47>>, <<15716, 5665, 4243, 1256, -47>>,
                 <<4660, 14971, 16173, 1256, -47>>, <<10234, 5821, 11714, 1257, -47>>, <<14112, 10926, 7248, 1258, -47>>,
                 <<14849, 13844, 2776, 1259, -47>>, <<11486, 14517, 14682, 1259, -47>>, <<3552, 12887, 10198, 1260, -47>>,
                 <<7455, 8895, 5708, 1261, -47>>, <<7323, 2484, 1212, 1262, -47>>, <<4160, 9980, 13093, 1262, -47>>,
                 <<15843, 14940, 8584, 1263, -47>>, <<11590, 924, 4070, 1264, -47>>, <<10265, 641, 15933, 1264, -47>>,
                 <<14836, 14033, 11405, 1265, -47>>, <<12382, 8275, 6872, 1266, -47>>, <<6856, 16077, 2332, 1267, -47>>,
                 <<2708, 4613, 14171, 1267, -47>>, <<4876, 6593, 9619, 1268, -47>>, <<2414, 5576, 5061, 1269, -47>>,
                 <<1246, 1504, 497, 1270, -47>>, <<7796, 10703, 12310, 1270, -47>>, <<12596, 348, 7734, 1271, -47>>,
                 <<6673, 3150, 3151, 1272, -47>>, <<14317, 2666, 14946, 1272, -47>>>>[k]
          [] d = 44 ->
               <<<<11160, 15224, 10350, 1273, -47>>, <<6100, 7998, 5749, 1274, -47>>, <<8526, 13698, 1141, 1275, -47>>,
                 <<11943, 15883, 12911, 1275, -47>>, <<10353, 14496, 8291, 1276, -47>>, <<14635, 9479, 3665, 1277, -47>>,
                 <<3398, 776, 15417, 1277, -47>>, <<4903, 4712, 10778, 1278, -47>>, <<15136, 4846, 6133, 1279, -47>>,
                 <<14198, 1122, 1482, 1280, -47>>, <<15457, 9866, 13208, 1280, -47>>, <<13, 14638, 8544, 1281, -47>>,
                 <<14996, 15378, 3874, 1282, -47>>, <<9734, 12032, 15582, 1282, -47>>, <<15973, 4541, 10900, 1283, -47>>,
                 <<421, 9234, 6211, 1284, -47>>, <<12208, 9667, 1516, 1285, -47>>, <<2659, 5786, 13199, 1285, -47>>,
                 <<5519, 13916, 8491, 1286, -47>>, <<5880, 1233, 3778, 1287, -47>>, <<5722, 448, 15442, 1287, -47>>,
                 <<7525, 11504, 10715, 1288, -47>>, <<14266, 1576, 5983, 1289, -47>>, <<13045, 3376, 1244, 1290, -47>>,
                 <<7846, 463, 12883, 1290, -47>>, <<3155, 9164, 8131, 1291, -47>>, <<3958, 13038, 3373, 1292, -47>>,
                 <<15748, 12028, 14993, 1292, -47>>, <<11751, 6079, 10223, 1293, -47>>, <<14846, 11517, 5446, 1294, -47>>,
                 <<15652, 11902, 663, 1295, -47>>, <<5287, 7178, 12258, 1295, -47>>>>[k]
          [] d = 45 ->
               <<<<8143, 13671, 7462, 1296, -47>>, <<16350, 14941, 2660, 1297, -47>>, <<6159, 10933, 14236, 1297, -47>>,
                 <<3471, 1589, 9422, 1298, -47>>, <<1933, 3237, 4601, 1299, -47>>, <<12075, 15820, 16157, 1299, -47>>,
                 <<12169, 6515, 11324, 1300, -47>>, <<13758, 8033, 6484, 1301, -47>>, <<12510, 3934, 1638, 1302, -47>>,
                 <<4595, 10546, 13169, 1302, -47>>, <<3079, 11428, 8310, 1303, -47>>, <<5148, 6524, 3445, 1304, -47>>,
                 <<8496, 12162, 14957, 1304, -47>>, <<11324, 11902, 10079, 1305, -47>>, <<12341, 5688, 5195, 1306, -47>>,
                 <<10767, 9848, 304, 1307, -47>>, <<6325, 7942, 11791, 1307, -47>>, <<15636, 16297, 6887, 1308, -47>>,
                 <<6674, 2091, 1978, 1309, -47>>, <<13461, 14418, 13445, 1309, -47>>, <<4991, 4072, 8523, 1310, -47>>,
                 <<16305, 3763, 3594, 1311, -47>>, <<1031, 13438, 15042, 1311, -47>>, <<11614, 270, 10101, 1312, -47>>,
                 <<2708, 13358, 5152, 1313, -47>>, <<11392, 3492, 198, 1314, -47>>, <<9724, 3386, 11621, 1314, -47>>,
                 <<3041, 12984, 6653, 1315, -47>>, <<13574, 15845, 1679, 1316, -47>>, <<14917, 11915, 13083, 1316, -47>>,
                 <<13940, 1138, 8097, 1317, -47>>, <<1648, 16227, 3103, 1318, -47>>>>[k]
          [] d = 46 ->
               <<<<2317, 7973, 14488, 1318, -47>>, <<7978, 9089, 9482, 1319, -47>>, <<11170, 3136, 4470, 1320, -47>>,
                 <<4946, 6443, 15835, 1320, -47>>, <<15641, 2569, 10810, 1321, -47>>, <<4570, 7845, 5778, 1322, -47>>,
                 <<15479, 5829, 740, 1323, -47>>, <<10712, 12852, 12079, 1323, -47>>, <<2278, 12474, 7028, 1324, -47>>,
                 <<2703, 4639, 1971, 1325, -47>>, <<8641, 5676, 13291, 1325, -47>>, <<880, 15531, 8220, 1326, -47>>,
                 <<9878, 1379, 3144, 1327, -47>>, <<1069, 12319, 14444, 1327, -47>>, <<5944, 15526, 9354, 1328, -47>>,
                 <<7354, 10946, 4258, 1329, -47>>, <<5055, 14908, 15539, 1329, -47>>, <<15702, 10972, 10430, 1330, -47>>,
                 <<7318, 15469, 5314, 1331, -47>>, <<13977, 11958, 192, 1332, -47>>, <<4737, 386, 11448, 1332, -47>>,
                 <<14710, 13464, 6312, 1333, -47>>, <<13992, 1987, 1171, 1334, -47>>, <<5962, 15052, 12406, 1334, -47>>,
                 <<10907, 3451, 7252, 1335, -47>>, <<478, 16283, 2090, 1336, -47>>, <<12385, 4339, 13307, 1336, -47>>,
                 <<2932, 335, 8133, 1337, -47>>, <<10872, 4214, 2952, 1338, -47>>, <<9935, 15923, 14148, 1338, -47>>,
                 <<7144, 2639, 8955, 1339, -47>>, <<10042, 13459, 3754, 1340, -47>>>>[k]
          [] d = 47 ->
               <<<<10308, 15561, 14931, 1340, -47>>, <<145, 8891, 9718, 1341, -47>>, <<5043, 9777, 4498, 1342, -47>>,
                 <<1866, 1782, 15656, 1342, -47>>, <<764, 1235, 10423, 1343, -47>>, <<12413, 8081, 5183, 1344, -47>>,
                 <<15243, 5883, 16321, 1344, -47>>, <<4591, 10971, 11068, 1345, -47>>, <<9084, 6905, 5809, 1346, -47>>,
                 <<8724, 10016, 543, 1347, -47>>, <<419, 3866, 11655, 1347, -47>>, <<14369, 4783, 6376, 1348, -47>>,
                 <<15763, 12715, 1090, 1349, -47>>, <<3083, 11224, 12182, 1349, -47>>, <<8103, 254, 6884, 1350, -47>>,
                 <<13973, 12520, 1578, 1351, -47>>, <<4365, 15201, 12650, 1351, -47>>, <<12631, 8241, 7332, 1352, -47>>,
                 <<7113, 7972, 2007, 1353, -47>>, <<5832, 14339, 13059, 1353, -47>>, <<10948, 10904, 7721, 1354, -47>>,
                 <<8769, 13998, 2376, 1355, -47>>, <<2510, 7183, 13409, 1355, -47>>, <<12302, 6788, 8051, 1356, -47>>,
                 <<9645, 12761, 2686, 1357, -47>>, <<15725, 8663, 13699, 1357, -47>>, <<3103, 10826, 8321, 1358, -47>>,
                 <<10402, 2810, 2937, 1359, -47>>, <<11238, 947, 13930, 1359, -47>>, <<12527, 5183, 8532, 1360, -47>>,
                 <<5328, 15465, 3127, 1361, -47>>, <<13997, 15354, 14100, 1361, -47>>>>[k]
          [] d = 48 ->
               <<<<14271, 4798, 8683, 1362, -47>>, <<15179, 127, 3259, 1363, -47>>, <<9904, 1288, 14212, 1363, -47>>,
                 <<8537, 8227, 8774, 1364, -47>>, <<5320, 4507, 3330, 1365, -47>>, <<11406, 6458, 14263, 1365, -47>>,
                 <<5716, 14028, 8805, 1366, -47>>, <<469, 10779, 3341, 1367, -47>>, <<8412, 13041, 14254, 1367, -47>>,
                 <<10063, 4378, 8777, 1368, -47>>, <<2850, 1121, 3293, 1369, -47>>, <<1122, 3216, 14186, 1369, -47>>,
                 <<3374, 10610, 8688, 1370, -47>>, <<8636, 6866, 3184, 1371, -47>>, <<88, 8316, 14057, 1371, -47>>,
                 <<10593, 14905, 8539, 1372, -47>>, <<8012, 10198, 3015, 1373, -47>>, <<9897, 10525, 13868, 1373, -47>>,
                 <<1560, 15834, 8330, 1374, -47>>, <<1620, 9687, 2786, 1375, -47>>, <<12845, 8415, 13619, 1375, -47>>,
                 <<5772, 11967, 8061, 1376, -47>>, <<624, 3905, 2497, 1377, -47>>, <<1776, 560, 13310, 1377, -47>>,
                 <<14138, 1879, 7732, 1378, -47>>, <<10389, 7811, 2147, 1379, -47>>, <<12900, 1918, 12940, 1379, -47>>,
                 <<11805, 532, 7342, 1380, -47>>, <<14160, 3600, 1737, 1381, -47>>, <<11179, 11070, 12509, 1381, -47>>,
                 <<10993, 6505, 6891, 1382, -47>>, <<5887, 6237, 1266, 1383, -47>>>>[k]
          [] d = 49 ->
               <<<<5072, 10213, 12018, 1383, -47>>, <<1908, 1997, 6380, 1384, -47>>, <<6680, 14304, 734, 1385, -47>>,
                 <<13829, 14314, 11466, 1385, -47>>, <<1949, 1976, 5808, 1386, -47>>, <<15710, 10003, 142, 1387, -47>>,
                 <<2018, 5578, 10854, 1387, -47>>, <<6623, 5030, 5175, 1388, -47>>, <<10279, 8308, 15873, 1388, -47>>,
                 <<10662, 15360, 10180, 1389, -47>>, <<5991, 9750, 4481, 1390, -47>>, <<11412, 7809, 15159, 1390, -47>>,
                 <<9837, 9486, 9446, 1391, -47>>, <<1111, 14729, 3726, 1392, -47>>, <<2001, 7101, 14384, 1392, -47>>,
                 <<13432, 2934, 8651, 1393, -47>>, <<4102, 2178, 2911, 1394, -47>>, <<8790, 4779, 13548, 1394, -47>>,
                 <<13665, 10686, 7794, 1395, -47>>, <<5436, 3464, 2034, 1396, -47>>, <<4127, 15828, 12650, 1396, -47>>,
                 <<13919, 14958, 6876, 1397, -47>>, <<6769, 804, 1096, 1398, -47>>, <<4331, 6081, 11692, 1398, -47>>,
                 <<12418, 14353, 5897, 1399, -47>>, <<4619, 9186, 96, 1400, -47>>, <<4219, 6911, 10672, 1400, -47>>,
                 <<2285, 7477, 4857, 1401, -47>>, <<6806, 10832, 15419, 1401, -47>>, <<9937, 541, 9591, 1402, -47>>,
                 <<4376, 9321, 3755, 1403, -47>>, <<16138, 4351, 14297, 1403, -47>>>>[k]
          [] d = 50 ->
               <<<<6245, 1966, 8448, 1404, -47>>, <<1803, 2113, 2592, 1405, -47>>, <<14081, 4740, 13113, 1405, -47>>,
                 <<5741, 9798, 7243, 1406, -47>>, <<5529, 850, 1367, 1407, -47>>, <<9972, 10613, 11867, 1407, -47>>,
                 <<16143, 6268, 5977, 1408, -47>>, <<5280, 4149, 80, 1409, -47>>, <<8319, 4203, 10560, 1409, -47>>,
                 <<7593, 6380, 4649, 1410, -47>>, <<2369, 10629, 15115, 1410, -47>>, <<8848, 514, 9191, 1411, -47>>,
                 <<11009, 8753, 3259, 1412, -47>>, <<9766, 2527, 13705, 1412, -47>>, <<6582, 14553, 7759, 1413, -47>>,
                 <<3471, 12012, 1807, 1414, -47>>, <<2994, 11237, 12232, 1414, -47>>, <<8267, 12177, 6266, 1415, -47>>,
                 <<6571, 14782, 293, 1416, -47>>, <<2119, 2617, 10698, 1416, -47>>, <<16063, 8398, 4711, 1417, -47>>,
                 <<4567, 15693, 15101, 1417, -47>>, <<6269, 8065, 9101, 1418, -47>>, <<11207, 1848, 3094, 1419, -47>>,
                 <<9970, 13376, 13463, 1419, -47>>, <<10083, 9830, 7442, 1420, -47>>, <<3239, 7544, 1414, 1421, -47>>,
                 <<14455, 6466, 11763, 1421, -47>>, <<3763, 6548, 5721, 1422, -47>>, <<13667, 7737, 16056, 1422, -47>>,
                 <<5307, 9985, 10000, 1423, -47>>, <<5911, 13240, 3937, 1424, -47>>>>[k]
          [] d = 51 ->
               <<<<10495, 1068, 14252, 1424, -47>>, <<14627, 6187, 8175, 1425, -47>>, <<14430, 12163, 2091, 1426, -47>>,
                 <<6585, 2562, 12385, 1426, -47>>, <<4709, 10101, 6287, 1427, -47>>, <<6588, 1962, 183, 1428, -47>>,
                 <<10571, 10863, 10455, 1428, -47>>, <<15554, 3986, 4337, 1429, -47>>, <<4610, 14050, 14595, 1429, -47>>,
                 <<10523, 8235, 8463, 1430, -47>>, <<1089, 2877, 2324, 1431, -47>>, <<10205, 14308, 12561, 1431, -47>>,
                 <<6784, 9712, 6408, 1432, -47>>, <<9451, 5422, 248, 1433, -47>>, <<4619, 1389, 10465, 1433, -47>>,
                 <<12027, 13946, 4290, 1434, -47>>, <<2820, 10277, 14493, 1434, -47>>, <<14238, 6714, 8305, 1435, -47>>,
                 <<2159, 3210, 2110, 1436, -47>>, <<4938, 16097, 12291, 1436, -47>>, <<12340, 12558, 6082, 1437, -47>>,
                 <<14686, 8928, 16250, 1437, -47>>, <<2859, 5158, 10027, 1438, -47>>, <<1070, 1197, 3797, 1439, -47>>,
                 <<1318, 13380, 13943, 1439, -47>>, <<12549, 8889, 7699, 1440, -47>>, <<11503, 4060, 1448, 1441, -47>>,
                 <<8246, 15227, 11573, 1441, -47>>, <<13405, 9572, 5308, 1442, -47>>, <<5401, 3431, 15420, 1442, -47>>,
                 <<12368, 13137, 9140, 1443, -47>>, <<13849, 5874, 2854, 1444, -47>>>>[k]
          [] d = 52 ->
               <<<<6337, 14361, 12944, 1444, -47>>, <<3262, 5780, 6644, 1445, -47>>, <<2241, 12850, 336, 1446, -47>>,
                 <<1451, 2754, 10406, 1446, -47>>, <<16013, 8210, 4084, 1447, -47>>, <<12463, 12787, 14139, 1447, -47>>,
                 <<7050, 51, 7804, 1448, -47>>, <<203, 2721, 1461, 1449, -47>>, <<9297, 4363, 11495, 1449, -47>>,
                 <<3124, 4930, 5138, 1450, -47>>, <<187, 4372, 15158, 1450, -47>>, <<3171, 2640, 8787, 1451, -47>>,
                 <<15327, 16069, 2408, 1452, -47>>, <<7702, 11844, 12407, 1452, -47>>, <<1059, 6299, 6015, 1453, -47>>,
                 <<345, 15769, 15999, 1453, -47>>, <<11071, 7437, 9593, 1454, -47>>, <<6545, 14024, 3179, 1455, -47>>,
                 <<9795, 2712, 13143, 1455, -47>>, <<11646, 6221, 6715, 1456, -47>>, <<3492, 8119, 280, 1457, -47>>,
                 <<10059, 8356, 10222, 1457, -47>>, <<7488, 6885, 3773, 1458, -47>>, <<5258, 3657, 13701, 1458, -47>>,
                 <<13413, 15007, 7237, 1459, -47>>, <<9797, 8120, 767, 1460, -47>>, <<5593, 15715, 10673, 1460, -47>>,
                 <<12548, 4975, 4189, 1461, -47>>, <<10211, 8621, 14081, 1461, -47>>, <<11470, 10220, 7582, 1462, -47>>,
                 <<13395, 9724, 1076, 1463, -47>>, <<13627, 7085, 10947, 1463, -47>>>>[k]
          [] d = 53 ->
               <<<<10375, 2255, 4427, 1464, -47>>, <<2419, 11570, 14283, 1464, -47>>, <<5492, 2213, 7749, 1465, -47>>,
                 <<3129, 6905, 1207, 1466, -47>>, <<12204, 9213, 11042, 1466, -47>>, <<1009, 9091, 4486, 1467, -47>>,
                 <<3943, 6489, 14307, 1467, -47>>, <<6826, 1360, 7737, 1468, -47>>, <<12429, 10040, 1159, 1469, -47>>,
                 <<7714, 16098, 10958, 1469, -47>>, <<12983, 3101, 4367, 1470, -47>>, <<16340, 3770, 14152, 1470, -47>>,
                 <<6461, 1674, 7546, 1471, -47>>, <<5365, 13148, 932, 1472, -47>>, <<2873, 5377, 10696, 1472, -47>>,
                 <<5764, 11081, 4068, 1473, -47>>, <<5007, 13829, 13817, 1473, -47>>, <<8527, 13573, 7175, 1474, -47>>,
                 <<8440, 10266, 526, 1475, -47>>, <<13818, 3860, 10254, 1475, -47>>, <<1542, 10693, 3590, 1476, -47>>,
                 <<14598, 14331, 13303, 1476, -47>>, <<14633, 14729, 6625, 1477, -47>>, <<13016, 11839, 16324, 1477, -47>>,
                 <<5312, 5614, 9632, 1478, -47>>, <<4038, 12390, 2932, 1479, -47>>, <<5908, 15736, 12609, 1479, -47>>,
                 <<8211, 15605, 5895, 1480, -47>>, <<8809, 11950, 15558, 1480, -47>>, <<6144, 4724, 8830, 1481, -47>>,
                 <<15617, 10263, 2094, 1482, -47>>, <<4051, 12138, 11735, 1482, -47>>>>[k]
          [] d = 54 ->
               <<<<4386, 10300, 4985, 1483, -47>>, <<984, 4703, 14612, 1483, -47>>, <<11554, 11683, 7847, 1484, -47>>,
                 <<5230, 14811, 1075, 1485, -47>>, <<876, 14039, 10680, 1485, -47>>, <<1549, 9320, 3894, 1486, -47>>,
                 <<10885, 607, 13485, 1486, -47>>, <<329, 4239, 6684, 1487, -47>>, <<7445, 3783, 16260, 1487, -47>>,
                 <<4834, 15578, 9444, 1488, -47>>, <<14833, 6808, 2622, 1489, -47>>, <<11205, 10196, 12176, 1489, -47>>,
                 <<1057, 9311, 5339, 1490, -47>>, <<8464, 4105, 14879, 1490, -47>>, <<8929, 10917, 8027, 1491, -47>>,
                 <<11301, 13316, 1168, 1492, -47>>, <<8626, 11256, 10686, 1492, -47>>, <<10917, 4690, 3813, 1493, -47>>,
                 <<12380, 9956, 13316, 1493, -47>>, <<7805, 10624, 6428, 1494, -47>>, <<8948, 6647, 15917, 1494, -47>>,
                 <<11760, 14363, 9014, 1495, -47>>, <<12775, 958, 2105, 1496, -47>>, <<9111, 15538, 11571, 1496, -47>>,
                 <<14849, 8904, 4647, 1497, -47>>, <<11886, 13779, 14099, 1497, -47>>, <<15469, 13732, 7160, 1498, -47>>,
                 <<8663, 8718, 214, 1499, -47>>, <<7879, 15074, 9644, 1499, -47>>, <<13734, 16370, 2683, 1500, -47>>,
                 <<11038, 12561, 12099, 1500, -47>>, <<1572, 3601, 5124, 1501, -47>>>>[k]
          [] d = 55 ->
               <<<<4087, 5827, 14525, 1501, -47>>, <<5146, 2810, 7535, 1502, -47>>, <<8284, 10888, 537, 1503, -47>>,
                 <<1234, 13632, 9916, 1503, -47>>, <<5085, 10995, 2904, 1504, -47>>, <<8742, 2932, 12269, 1504, -47>>,
                 <<1694, 5782, 5242, 1505, -47>>, <<6784, 3114, 14592, 1505, -47>>, <<14675, 11267, 7550, 1506, -47>>,
                 <<231, 13813, 501, 1507, -47>>, <<4437, 10704, 9829, 1507, -47>>, <<3329, 1896, 2766, 1508, -47>>,
                 <<6300, 3727, 12079, 1508, -47>>, <<6943, 16152, 5000, 1509, -47>>, <<15823, 6357, 14299, 1509, -47>>,
                 <<11326, 7066, 7206, 1510, -47>>, <<5193, 1849, 106, 1511, -47>>, <<9750, 7044, 9382, 1511, -47>>,
                 <<5147, 6223, 2267, 1512, -47>>, <<4890, 15724, 11528, 1512, -47>>, <<6685, 2734, 4399, 1513, -47>>,
                 <<8833, 16360, 13645, 1513, -47>>, <<10220, 7405, 6501, 1514, -47>>, <<10321, 8592, 15733, 1514, -47>>,
                 <<9203, 3492, 8574, 1515, -47>>, <<7521, 8444, 1407, 1516, -47>>, <<6519, 7019, 10617, 1516, -47>>,
                 <<8033, 15556, 3435, 1517, -47>>, <<14487, 1242, 12631, 1517, -47>>, <<12515, 13185, 5434, 1518, -47>>,
                 <<5722, 2188, 14615, 1518, -47>>, <<14690, 973, 7404, 1519, -47>>>>[k]
          [] d = 56 ->
               <<<<11439, 9497, 185, 1520, -47>>, <<1349, 11331, 9343, 1520, -47>>, <<6776, 6429, 2110, 1521, -47>>,
                 <<1516, 11132, 11253, 1521, -47>>, <<9106, 9010, 4005, 1522, -47>>, <<4528, 20, 13134, 1522, -47>>,
                 <<12506, 500, 5871, 1523, -47>>, <<9203, 10407, 14984, 1523, -47>>, <<4146, 13312, 7706, 1524, -47>>,
                 <<7453, 9170, 421, 1525, -47>>, <<13452, 14321, 9512, 1525, -47>>, <<681, 12338, 2212, 1526, -47>>,
                 <<13808, 3174, 11289, 1526, -47>>, <<16173, 3171, 3974, 1527, -47>>, <<4480, 12285, 13035, 1527, -47>>,
                 <<8795, 14086, 5705, 1528, -47>>, <<10627, 8531, 14752, 1528, -47>>, <<8462, 11960, 7407, 1529, -47>>,
                 <<1382, 7945, 55, 1530, -47>>, <<5451, 12825, 9079, 1530, -47>>, <<4556, 10173, 1712, 1531, -47>>,
                 <<15950, 16328, 10721, 1531, -47>>, <<8332, 14864, 3339, 1532, -47>>, <<143, 5736, 12334, 1532, -47>>,
                 <<10427, 5283, 4937, 1533, -47>>, <<9669, 13463, 13916, 1533, -47>>, <<1719, 13848, 6504, 1534, -47>>,
                 <<7408, 6393, 15469, 1534, -47>>, <<15396, 7439, 8042, 1535, -47>>, <<14944, 559, 608, 1536, -47>>,
                 <<12289, 2093, 9550, 1536, -47>>, <<14268, 11997, 2100, 1537, -47>>>>[k]
          [] d = 57 ->
               <<<<11935, 13844, 11027, 1537, -47>>, <<13322, 7590, 3563, 1538, -47>>, <<10676, 9576, 12475, 1538, -47>>,
                 <<13230, 3374, 4996, 1539, -47>>, <<14428, 5325, 13893, 1539, -47>>, <<8316, 15386, 6398, 1540, -47>>,
                 <<5921, 745, 15281, 1540, -47>>, <<2488, 10511, 7771, 1541, -47>>, <<10243, 11872, 254, 1542, -47>>,
                 <<9246, 4786, 9114, 1542, -47>>, <<12923, 5593, 1582, 1543, -47>>, <<2536, 14251, 10426, 1543, -47>>,
                 <<9096, 14331, 2879, 1544, -47>>, <<15065, 5791, 11709, 1544, -47>>, <<3503, 4973, 4147, 1545, -47>>,
                 <<7228, 11832, 12961, 1545, -47>>, <<10503, 9942, 5384, 1546, -47>>, <<14578, 15644, 14183, 1546, -47>>,
                 <<4922, 12512, 6591, 1547, -47>>, <<374, 502, 15376, 1547, -47>>, <<3988, 12339, 7768, 1548, -47>>,
                 <<3041, 15213, 153, 1549, -47>>, <<1795, 9081, 8915, 1549, -47>>, <<5112, 10284, 1285, 1550, -47>>,
                 <<2077, 2396, 10032, 1550, -47>>, <<15145, 1757, 2387, 1551, -47>>, <<1839, 8327, 11118, 1551, -47>>,
                 <<2201, 5677, 3458, 1552, -47>>, <<7734, 10149, 12174, 1552, -47>>, <<10537, 5317, 4499, 1553, -47>>,
                 <<3316, 7523, 13200, 1553, -47>>, <<12152, 339, 5510, 1554, -47>>>>[k]
          [] d = 58 ->
               <<<<14574, 108, 14196, 1554, -47>>, <<5105, 6788, 6490, 1555, -47>>, <<11638, 3951, 15161, 1555, -47>>,
                 <<13519, 7940, 7440, 1556, -47>>, <<7085, 2329, 16096, 1556, -47>>, <<5662, 3459, 8360, 1557, -47>>,
                 <<6800, 11288, 616, 1558, -47>>, <<8651, 9390, 9249, 1558, -47>>, <<9979, 14107, 1490, 1559, -47>>,
                 <<10150, 9013, 10108, 1559, -47>>, <<9136, 10450, 2334, 1560, -47>>, <<7521, 1992, 10937, 1560, -47>>,
                 <<6493, 16365, 3147, 1561, -47>>, <<7848, 4375, 11735, 1561, -47>>, <<13989, 15132, 3930, 1562, -47>>,
                 <<11543, 15827, 12502, 1562, -47>>, <<4130, 6418, 4683, 1563, -47>>, <<12362, 3246, 13240, 1563, -47>>,
                 <<8304, 6271, 5405, 1564, -47>>, <<13789, 15450, 13946, 1564, -47>>, <<2100, 14359, 6096, 1565, -47>>,
                 <<12667, 2954, 14623, 1565, -47>>, <<3611, 13964, 6757, 1566, -47>>, <<15581, 14577, 15268, 1566, -47>>,
                 <<7914, 4754, 7388, 1567, -47>>, <<6098, 836, 15884, 1567, -47>>, <<3457, 2782, 7988, 1568, -47>>,
                 <<10312, 10550, 84, 1569, -47>>, <<4827, 7716, 8557, 1569, -47>>, <<14929, 10621, 638, 1570, -47>>,
                 <<3618, 2842, 9096, 1570, -47>>, <<41, 720, 1162, 1571, -47>>>>[k]
          [] d = 59 ->
               <<<<1191, 4214, 9604, 1571, -47>>, <<4669, 13283, 1654, 1572, -47>>, <<8691, 11502, 10081, 1572, -47>>,
                 <<12082, 15214, 2116, 1573, -47>>, <<14279, 7994, 10528, 1573, -47>>, <<15335, 6185, 2548, 1574, -47>>,
                 <<15912, 9746, 10944, 1574, -47>>, <<902, 2253, 2949, 1575, -47>>, <<4960, 47, 11330, 1575, -47>>,
                 <<14204, 3088, 3319, 1576, -47>>, <<15367, 11336, 11684, 1576, -47>>, <<12174, 8366, 3658, 1577, -47>>,
                 <<8968, 10521, 12008, 1577, -47>>, <<10705, 1376, 3967, 1578, -47>>, <<6572, 13659, 12301, 1578, -47>>,
                 <<2750, 14561, 4244, 1579, -47>>, <<6040, 4041, 12564, 1579, -47>>, <<7471, 14827, 4491, 1580, -47>>,
                 <<15069, 14110, 12795, 1580, -47>>, <<4711, 1851, 4708, 1581, -47>>, <<2038, 10776, 12996, 1581, -47>>,
                 <<540, 8077, 4893, 1582, -47>>, <<10707, 10097, 13166, 1582, -47>>, <<10875, 413, 5048, 1583, -47>>,
                 <<12765, 11752, 13305, 1583, -47>>, <<12331, 11306, 5171, 1584, -47>>, <<6143, 15419, 13413, 1584, -47>>,
                 <<7771, 7666, 5264, 1585, -47>>, <<15018, 4391, 13491, 1585, -47>>, <<9920, 5555, 5326, 1586, -47>>,
                 <<7899, 11117, 13537, 1586, -47>>, <<8610, 4653, 5357, 1587, -47>>>>[k]
          [] d = 60 ->
               <<<<12323, 2507, 13553, 1587, -47>>, <<3548, 4640, 5357, 1588, -47>>, <<174, 11011, 13537, 1588, -47>>,
                 <<4329, 5196, 5326, 1589, -47>>, <<2372, 3540, 13491, 1589, -47>>, <<14052, 6002, 5264, 1590, -47>>,
                 <<10581, 12544, 13413, 1590, -47>>, <<12946, 6741, 5171, 1591, -47>>, <<9982, 4938, 13305, 1591, -47>>,
                 <<7528, 7095, 5047, 1592, -47>>, <<12044, 13172, 13165, 1592, -47>>, <<14225, 6746, 4892, 1593, -47>>,
                 <<5382, 4162, 12995, 1593, -47>>, <<10223, 5379, 4706, 1594, -47>>, <<4915, 10359, 12793, 1594, -47>>,
                 <<15401, 2677, 4489, 1595, -47>>, <<2713, 15064, 12560, 1595, -47>>, <<10417, 14710, 4240, 1596, -47>>,
                 <<784, 1578, 12297, 1596, -47>>, <<2241, 8395, 3961, 1597, -47>>, <<11070, 2354, 12002, 1597, -47>>,
                 <<7787, 16185, 3650, 1598, -47>>, <<6303, 696, 11676, 1598, -47>>, <<4761, 5000, 3309, 1599, -47>>,
                 <<1933, 12674, 11318, 1599, -47>>, <<13593, 7294, 2936, 1600, -47>>, <<6984, 5207, 10930, 1600, -47>>,
                 <<15513, 6372, 2532, 1601, -47>>, <<7671, 10752, 10510, 1601, -47>>, <<1723, 1923, 2097, 1602, -47>>,
                 <<175, 12614, 10059, 1602, -47>>, <<6158, 10018, 1630, 1603, -47>>>>[k]
          [] d = 61 ->
               <<<<7039, 10481, 9577, 1603, -47>>, <<7197, 13964, 1132, 1604, -47>>, <<11632, 4044, 9064, 1604, -47>>,
                 <<9584, 13451, 603, 1605, -47>>, <<7305, 9378, 8519, 1605, -47>>, <<11670, 8170, 43, 1606, -47>>,
                 <<13791, 9789, 7943, 1606, -47>>, <<5412, 14197, 15835, 1606, -47>>, <<11666, 4970, 7336, 1607, -47>>,
                 <<9158, 14839, 15212, 1607, -47>>, <<7891, 10997, 6697, 1608, -47>>, <<2106, 9790, 14558, 1608, -47>>,
                 <<3057, 11179, 6027, 1609, -47>>, <<6238, 15126, 13872, 1609, -47>>, <<7768, 5209, 5326, 1610, -47>>,
                 <<4399, 14158, 13155, 1610, -47>>, <<9887, 9166, 4593, 1611, -47>>, <<5848, 6580, 12407, 1611, -47>>,
                 <<7296, 6361, 3829, 1612, -47>>, <<13486, 8471, 11627, 1612, -47>>, <<7918, 12873, 3033, 1613, -47>>,
                 <<7485, 3144, 10816, 1613, -47>>, <<13328, 12014, 2206, 1614, -47>>, <<10827, 6678, 9973, 1614, -47>>,
                 <<2380, 3482, 1348, 1615, -47>>, <<7392, 2387, 9099, 1615, -47>>, <<13131, 3356, 458, 1616, -47>>,
                 <<7495, 6352, 8193, 1616, -47>>, <<11777, 11336, 15920, 1616, -47>>, <<15130, 1887, 7256, 1617, -47>>,
                 <<7341, 10736, 14967, 1617, -47>>, <<11589, 5076, 6287, 1618, -47>>>>[k]
          [] d = 62 ->
               <<<<2534, 1255, 13983, 1618, -47>>, <<4619, 15618, 5286, 1619, -47>>, <<10146, 15360, 12966, 1619, -47>>,
                 <<12046, 444, 4255, 1620, -47>>, <<3886, 3601, 11919, 1620, -47>>, <<12626, 8408, 3191, 1621, -47>>,
                 <<326, 14830, 10839, 1621, -47>>, <<11593, 6443, 2096, 1622, -47>>, <<9743, 15980, 9728, 1622, -47>>,
                 <<7884, 10635, 969, 1623, -47>>, <<3364, 6755, 8586, 1623, -47>>, <<10548, 4302, 16195, 1623, -47>>,
                 <<11666, 3240, 7412, 1624, -47>>, <<5964, 3532, 15005, 1624, -47>>, <<9703, 5140, 6206, 1625, -47>>,
                 <<7013, 8028, 13783, 1625, -47>>, <<15417, 12158, 4968, 1626, -47>>, <<3923, 1111, 12530, 1626, -47>>,
                 <<7710, 7616, 3699, 1627, -47>>, <<13435, 15253, 11244, 1627, -47>>, <<8389, 7602, 2398, 1628, -47>>,
                 <<13264, 1009, 9928, 1628, -47>>, <<235, 11823, 1065, 1629, -47>>, <<7646, 7237, 8579, 1629, -47>>,
                 <<8939, 3600, 16085, 1629, -47>>, <<10960, 875, 7199, 1630, -47>>, <<4800, 15410, 14688, 1630, -47>>,
                 <<14960, 14399, 5786, 1631, -47>>, <<1035, 14192, 13260, 1631, -47>>, <<5176, 14750, 4342, 1632, -47>>,
                 <<4634, 16038, 11800, 1632, -47>>, <<10059, 1635, 2867, 1633, -47>>>>[k]
          [] d = 63 ->
               <<<<16359, 4273, 10309, 1633, -47>>, <<2690, 7533, 1359, 1634, -47>>, <<14380, 11376, 8785, 1634, -47>>,
                 <<15473, 15768, 16203, 1634, -47>>, <<3418, 4289, 7230, 1635, -47>>, <<9065, 9669, 14632, 1635, -47>>,
                 <<14756, 15489, 5642, 1636, -47>>, <<3462, 5330, 13029, 1636, -47>>, <<7944, 11922, 4023, 1637, -47>>,
                 <<12454, 2462, 11394, 1637, -47>>, <<1875, 9683, 2372, 1638, -47>>, <<10880, 779, 9727, 1638, -47>>,
                 <<9247, 8484, 689, 1639, -47>>, <<158, 16378, 8027, 1639, -47>>, <<3814, 8040, 15358, 1639, -47>>,
                 <<8291, 16203, 6296, 1640, -47>>, <<2301, 8064, 13611, 1640, -47>>, <<7961, 16354, 4533, 1641, -47>>,
                 <<15261, 8270, 11832, 1641, -47>>, <<14829, 161, 2739, 1642, -47>>, <<14313, 8375, 10021, 1642, -47>>,
                 <<5623, 109, 912, 1643, -47>>, <<14070, 8094, 8178, 1643, -47>>, <<70, 15913, 15436, 1643, -47>>,
                 <<6602, 7144, 6303, 1644, -47>>, <<11741, 14521, 13545, 1644, -47>>, <<10597, 5241, 4396, 1645, -47>>,
                 <<15295, 12036, 11622, 1645, -47>>, <<5835, 2104, 2457, 1646, -47>>, <<12012, 8176, 9667, 1646, -47>>,
                 <<15107, 13834, 485, 1647, -47>>, <<13427, 2659, 7680, 1647, -47>>>>[k]
          [] d = 64 ->
               <<<<5918, 7384, 14866, 1647, -47>>, <<8555, 11589, 5660, 1648, -47>>, <<5182, 15240, 12830, 1648, -47>>,
                 <<13056, 1917, 3609, 1649, -47>>, <<923, 4355, 10763, 1649, -47>>, <<3704, 6133, 1525, 1650, -47>>,
                 <<7816, 7217, 8663, 1650, -47>>, <<311, 7573, 15793, 1650, -47>>, <<1656, 7165, 6531, 1651, -47>>,
                 <<193, 5959, 13645, 1651, -47>>, <<1287, 3920, 4367, 1652, -47>>, <<10948, 1013, 11465, 1652, -47>>,
                 <<3064, 13589, 2170, 1653, -47>>, <<1312, 8844, 9252, 1653, -47>>, <<13634, 3127, 16326, 1653, -47>>,
                 <<15844, 12789, 7007, 1654, -47>>, <<785, 5028, 14065, 1654, -47>>, <<11097, 12575, 4730, 1655, -47>>,
                 <<8143, 2630, 11772, 1655, -47>>, <<3081, 7926, 2421, 1656, -47>>, <<7715, 12044, 9446, 1656, -47>>,
                 <<1726, 14951, 79, 1657, -47>>, <<14590, 227, 7089, 1657, -47>>, <<10894, 608, 14090, 1657, -47>>,
                 <<5019, 16059, 4698, 1658, -47>>, <<11995, 13777, 11683, 1658, -47>>, <<14727, 10113, 2276, 1659, -47>>,
                 <<13150, 5033, 9245, 1659, -47>>, <<7844, 14887, 16205, 1659, -47>>, <<37, 6873, 6774, 1660, -47>>,
                 <<7986, 13724, 13718, 1660, -47>>, <<1439, 2640, 4271, 1661, -47>>>>[k]
          [] d = 65 ->
               <<<<16334, 6353, 11199, 1661, -47>>, <<7328, 8448, 1735, 1662, -47>>, <<11648, 8889, 8647, 1662, -47>>,
                 <<1632, 7644, 15551, 1662, -47>>, <<15801, 4677, 6063, 1663, -47>>, <<11403, 16341, 12950, 1663, -47>>,
                 <<11868, 9833, 3446, 1664, -47>>, <<8507, 1504, 10318, 1664, -47>>, <<9663, 7704, 797, 1665, -47>>,
                 <<7943, 12016, 7652, 1665, -47>>, <<12984, 14406, 14499, 1665, -47>>, <<2305, 14842, 4954, 1666, -47>>,
                 <<3226, 13289, 11785, 1666, -47>>, <<10944, 9714, 2224, 1667, -47>>, <<4926, 4085, 9039, 1667, -47>>,
                 <<14435, 12751, 15845, 1667, -47>>, <<3851, 2913, 6260, 1668, -47>>, <<3734, 7304, 13050, 1668, -47>>,
                 <<12531, 9507, 3448, 1669, -47>>, <<12951, 9490, 10222, 1669, -47>>, <<4738, 7220, 604, 1670, -47>>,
                 <<4669, 2663, 7362, 1670, -47>>, <<13788, 12170, 14111, 1670, -47>>, <<1020, 2942, 4469, 1671, -47>>,
                 <<1477, 7712, 11202, 1671, -47>>, <<1769, 10064, 1543, 1672, -47>>, <<5542, 9965, 8260, 1672, -47>>,
                 <<706, 7383, 14969, 1672, -47>>, <<8593, 2284, 5286, 1673, -47>>, <<2031, 11021, 11978, 1673, -47>>,
                 <<3655, 792, 2279, 1674, -47>>, <<3981, 4333, 8955, 1674, -47>>>>[k]
          [] d = 66 ->
               <<<<10559, 5227, 15623, 1674, -47>>, <<15211, 3442, 5899, 1675, -47>>, <<10407, 15330, 12550, 1675, -47>>,
                 <<5657, 8090, 2810, 1676, -47>>, <<11117, 14457, 9445, 1676, -47>>, <<4833, 1632, 16073, 1676, -47>>,
                 <<14655, 2349, 6308, 1677, -47>>, <<3545, 194, 12919, 1677, -47>>, <<662, 11517, 3137, 1678, -47>>,
                 <<3041, 3518, 9732, 1678, -47>>, <<8376, 8933, 16318, 1678, -47>>, <<15013, 11346, 6512, 1679, -47>>,
                 <<5566, 10726, 13082, 1679, -47>>, <<12456, 7039, 3260, 1680, -47>>, <<3221, 255, 9814, 1680, -47>>,
                 <<11592, 6724, 16359, 1680, -47>>, <<6412, 10032, 6512, 1681, -47>>, <<6335, 10146, 13041, 1681, -47>>,
                 <<14286, 7034, 3178, 1682, -47>>, <<1071, 666, 9691, 1682, -47>>, <<3693, 7392, 16195, 1682, -47>>,
                 <<10655, 10797, 6307, 1683, -47>>, <<11115, 10850, 12795, 1683, -47>>, <<11270, 7519, 2891, 1684, -47>>,
                 <<1589, 773, 9363, 1684, -47>>, <<5964, 6963, 15826, 1684, -47>>, <<16176, 9674, 5897, 1685, -47>>,
                 <<8275, 8876, 12344, 1685, -47>>, <<8122, 4536, 2399, 1686, -47>>, <<9463, 13007, 8829, 1686, -47>>,
                 <<6702, 1490, 15252, 1686, -47>>, <<11285, 2721, 5282, 1687, -47>>>>[k]
          [] d = 67 ->
               <<<<2545, 286, 11688, 1687, -47>>, <<9620, 10536, 1701, 1688, -47>>, <<13161, 673, 8091, 1688, -47>>,
                 <<10853, 3434, 14472, 1688, -47>>, <<1039, 2404, 4461, 1689, -47>>, <<15492, 13934, 10825, 1689, -47>>,
                 <<4719, 5228, 798, 1690, -47>>, <<1802, 9021, 7146, 1690, -47>>, <<7718, 8898, 13486, 1690, -47>>,
                 <<7716, 4829, 3434, 1691, -47>>, <<4085, 13167, 9757, 1691, -47>>, <<16158, 1112, 16073, 1691, -47>>,
                 <<14777, 1403, 5996, 1692, -47>>, <<4204, 14009, 12294, 1692, -47>>, <<5750, 6130, 2201, 1693, -47>>,
                 <<8613, 10504, 8483, 1693, -47>>, <<2651, 10717, 14757, 1693, -47>>, <<11151, 6737, 4639, 1694, -47>>,
                 <<8904, 14919, 10896, 1694, -47>>, <<4130, 2464, 762, 1695, -47>>, <<5709, 2109, 7003, 1695, -47>>,
                 <<6797, 13824, 13235, 1695, -47>>, <<1208, 4811, 3076, 1696, -47>>, <<16185, 7806, 9292, 1696, -47>>,
                 <<14096, 6397, 15500, 1696, -47>>, <<7120, 553, 5316, 1697, -47>>, <<8098, 6627, 11507, 1697, -47>>,
                 <<14144, 8205, 1306, 1698, -47>>, <<6655, 5258, 7481, 1698, -47>>, <<451, 14139, 13647, 1698, -47>>,
                 <<11014, 2049, 3422, 1699, -47>>, <<5340, 1728, 9572, 1699, -47>>>>[k]
          [] d = 68 ->
               <<<<232, 13145, 15713, 1699, -47>>, <<13158, 3501, 5463, 1700, -47>>, <<13095, 5536, 11588, 1700, -47>>,
                 <<2450, 2836, 1321, 1701, -47>>, <<674, 11754, 7429, 1701, -47>>, <<11499, 15876, 13529, 1701, -47>>,
                 <<6549, 15174, 3237, 1702, -47>>, <<7265, 9617, 9321, 1702, -47>>, <<2978, 15560, 15396, 1702, -47>>,
                 <<69, 205, 5080, 1703, -47>>, <<5582, 12674, 11138, 1703, -47>>, <<10839, 3786, 805, 1704, -47>>,
                 <<7823, 6280, 6847, 1704, -47>>, <<5569, 3742, 12881, 1704, -47>>, <<13771, 12526, 2522, 1705, -47>>,
                 <<10020, 16220, 8539, 1705, -47>>, <<5339, 14794, 14548, 1705, -47>>, <<11414, 8218, 4165, 1706, -47>>,
                 <<7828, 12848, 10157, 1706, -47>>, <<7596, 12270, 16141, 1706, -47>>, <<8013, 6455, 5733, 1707, -47>>,
                 <<7036, 11758, 11700, 1707, -47>>, <<3290, 11766, 1275, 1708, -47>>, <<12447, 6449, 7226, 1708, -47>>,
                 <<1692, 12164, 13168, 1708, -47>>, <<4411, 12496, 2718, 1709, -47>>, <<5503, 7417, 8644, 1709, -47>>,
                 <<6916, 13282, 14561, 1709, -47>>, <<11263, 13678, 4086, 1710, -47>>, <<5440, 8577, 9987, 1710, -47>>,
                 <<9775, 14333, 15879, 1710, -47>>, <<12495, 14534, 5379, 1711, -47>>>>[k]
          [] d = 69 ->
               <<<<2491, 9152, 11255, 1711, -47>>, <<2090, 14541, 738, 1712, -47>>, <<1517, 14289, 6597, 1712, -47>>,
                 <<8046, 8367, 12448, 1712, -47>>, <<13236, 13131, 1906, 1713, -47>>, <<9308, 12169, 7740, 1713, -47>>,
                 <<5538, 5452, 13566, 1713, -47>>, <<11870, 9335, 2999, 1714, -47>>, <<6141, 7407, 8808, 1714, -47>>,
                 <<16011, 16022, 14608, 1714, -47>>, <<4273, 2386, 4017, 1715, -47>>, <<16304, 15620, 9800, 1715, -47>>,
                 <<16230, 6546, 15576, 1715, -47>>, <<1613, 7904, 4959, 1716, -47>>, <<3451, 3280, 10718, 1716, -47>>,
                 <<4257, 9031, 84, 1717, -47>>, <<3596, 8745, 5826, 1717, -47>>, <<1703, 2394, 11560, 1717, -47>>,
                 <<15864, 6333, 901, 1718, -47>>, <<14881, 4152, 6618, 1718, -47>>, <<994, 12207, 12326, 1718, -47>>,
                 <<9879, 14084, 1642, 1719, -47>>, <<12346, 9757, 7334, 1719, -47>>, <<12639, 15582, 13017, 1719, -47>>,
                 <<15677, 15147, 2308, 1720, -47>>, <<10658, 8425, 7975, 1720, -47>>, <<3837, 11772, 13633, 1720, -47>>,
                 <<2139, 8776, 2899, 1721, -47>>, <<13155, 15793, 8540, 1721, -47>>, <<12383, 29, 14174, 1721, -47>>,
                 <<8755, 10608, 3414, 1722, -47>>, <<11876, 14734, 9030, 1722, -47>>>>[k]
          [] d = 70 ->
               <<<<15634, 12380, 14638, 1722, -47>>, <<14592, 3519, 3854, 1723, -47>>, <<3979, 4508, 9445, 1723, -47>>,
                 <<12464, 15318, 15027, 1723, -47>>, <<3853, 3156, 4218, 1724, -47>>, <<8156, 761, 9784, 1724, -47>>,
                 <<6904, 8107, 15341, 1724, -47>>, <<15067, 8782, 4506, 1725, -47>>, <<15518, 2760, 10047, 1725, -47>>,
                 <<8184, 6398, 15579, 1725, -47>>, <<10050, 3284, 4719, 1726, -47>>, <<6004, 9776, 10234, 1726, -47>>,
                 <<14372, 9462, 15741, 1726, -47>>, <<5004, 2317, 4856, 1727, -47>>, <<13955, 4696, 10346, 1727, -47>>,
                 <<12416, 190, 15828, 1727, -47>>, <<5020, 5156, 4917, 1728, -47>>, <<13455, 3182, 10382, 1728, -47>>,
                 <<10933, 10627, 15838, 1728, -47>>, <<4102, 11080, 4902, 1729, -47>>, <<286, 4514, 10342, 1729, -47>>,
                 <<7481, 7286, 15773, 1729, -47>>, <<1589, 2987, 4812, 1730, -47>>, <<8336, 7973, 10226, 1730, -47>>,
                 <<4970, 5835, 15632, 1730, -47>>, <<2182, 12930, 4645, 1731, -47>>, <<11335, 12847, 10034, 1731, -47>>,
                 <<11698, 5561, 15415, 1731, -47>>, <<15982, 7429, 4403, 1732, -47>>, <<4803, 2042, 9767, 1732, -47>>,
                 <<8607, 5756, 15122, 1732, -47>>, <<9358, 2162, 4085, 1733, -47>>>>[k]
          [] d = 71 ->
               <<<<6079, 7618, 9423, 1733, -47>>, <<14857, 5713, 14753, 1733, -47>>, <<3293, 12807, 3690, 1734, -47>>,
                 <<5205, 12488, 9003, 1734, -47>>, <<5933, 4731, 14308, 1734, -47>>, <<7874, 5894, 3220, 1735, -47>>,
                 <<14103, 15951, 8507, 1735, -47>>, <<11984, 2109, 13787, 1735, -47>>, <<5939, 13494, 2673, 1736, -47>>,
                 <<1073, 928, 7936, 1736, -47>>, <<3158, 13537, 13189, 1736, -47>>, <<2261, 2144, 2051, 1737, -47>>,
                 <<5511, 15875, 7287, 1737, -47>>, <<4328, 5553, 12516, 1737, -47>>, <<7190, 3920, 1352, 1738, -47>>,
                 <<6870, 10951, 6563, 1738, -47>>, <<13200, 10236, 11766, 1738, -47>>, <<3922, 1751, 577, 1739, -47>>,
                 <<6605, 1853, 5763, 1739, -47>>, <<344, 10518, 10940, 1739, -47>>, <<14061, 11335, 16109, 1739, -47>>,
                 <<11823, 4281, 4886, 1740, -47>>, <<7522, 5714, 10038, 1740, -47>>, <<15731, 15608, 15181, 1740, -47>>,
                 <<2545, 1172, 3933, 1741, -47>>, <<273, 11531, 9059, 1741, -47>>, <<9138, 13892, 14177, 1741, -47>>,
                 <<13651, 8231, 2903, 1742, -47>>, <<15389, 10907, 8004, 1742, -47>>, <<222, 5512, 13097, 1742, -47>>,
                 <<3848, 8403, 1797, 1743, -47>>, <<13494, 3172, 6873, 1743, -47>>>>[k]
          [] d = 72 ->
               <<<<680, 6180, 11940, 1743, -47>>, <<3143, 1016, 615, 1744, -47>>, <<10141, 4040, 5665, 1744, -47>>,
                 <<11618, 15228, 10706, 1744, -47>>, <<14576, 1787, 15740, 1744, -47>>, <<10313, 12845, 4380, 1745, -47>>,
                 <<7191, 15609, 9396, 1745, -47>>, <<14251, 10054, 14404, 1745, -47>>, <<8443, 12541, 3019, 1746, -47>>,
                 <<169, 6661, 8010, 1746, -47>>, <<508, 8773, 12992, 1746, -47>>, <<4834, 2469, 1582, 1747, -47>>,
                 <<9202, 4109, 6547, 1747, -47>>, <<10347, 13669, 11503, 1747, -47>>, <<5683, 14741, 67, 1748, -47>>,
                 <<9691, 7300, 5007, 1748, -47>>, <<4761, 7707, 9938, 1748, -47>>, <<6732, 15937, 14860, 1748, -47>>,
                 <<15741, 15582, 3390, 1749, -47>>, <<16223, 6619, 8296, 1749, -47>>, <<9673, 5408, 13193, 1749, -47>>,
                 <<14654, 11924, 1697, 1750, -47>>, <<1259, 9761, 6577, 1750, -47>>, <<5797, 15277, 11448, 1750, -47>>,
                 <<16104, 12065, 16311, 1750, -47>>, <<4318, 103, 4782, 1751, -47>>, <<8790, 12133, 9627, 1751, -47>>,
                 <<3020, 15365, 14464, 1751, -47>>, <<10339, 9774, 2909, 1752, -47>>, <<5610, 11722, 7729, 1752, -47>>,
                 <<13529, 4800, 12541, 1752, -47>>, <<10320, 5370, 960, 1753, -47>>>>[k]
          [] d = 73 ->
               <<<<5663, 13408, 5754, 1753, -47>>, <<9915, 12506, 10540, 1753, -47>>, <<1347, 2642, 15318, 1753, -47>>,
                 <<8068, 175, 3703, 1754, -47>>, <<9717, 5083, 8463, 1754, -47>>, <<2996, 959, 13215, 1754, -47>>,
                 <<1681, 4163, 1574, 1755, -47>>, <<3838, 14672, 6308, 1755, -47>>, <<8224, 16079, 11034, 1755, -47>>,
                 <<14274, 8361, 15752, 1755, -47>>, <<5726, 7880, 4077, 1756, -47>>, <<16150, 14611, 8777, 1756, -47>>,
                 <<14265, 12149, 13469, 1756, -47>>, <<2244, 471, 1769, 1757, -47>>, <<15707, 12320, 6443, 1757, -47>>,
                 <<9042, 14908, 11109, 1757, -47>>, <<2854, 8211, 15767, 1757, -47>>, <<2050, 8590, 4032, 1758, -47>>,
                 <<12222, 16022, 8672, 1758, -47>>, <<6875, 14102, 13304, 1758, -47>>, <<9354, 2806, 1544, 1759, -47>>,
                 <<10917, 14880, 6158, 1759, -47>>, <<3511, 1150, 10765, 1759, -47>>, <<12530, 10744, 15362, 1759, -47>>,
                 <<14908, 10873, 3567, 1760, -47>>, <<4640, 1515, 8148, 1760, -47>>, <<9182, 15414, 12719, 1760, -47>>,
                 <<7516, 3397, 899, 1761, -47>>, <<12083, 14593, 5453, 1761, -47>>, <<3238, 16213, 9999, 1761, -47>>,
                 <<11175, 8233, 14537, 1761, -47>>, <<1235, 7017, 2682, 1762, -47>>>>[k]
          [] d = 74 ->
               <<<<4987, 12541, 7202, 1762, -47>>, <<5526, 8400, 11714, 1762, -47>>, <<3022, 10956, 16217, 1762, -47>>,
                 <<14714, 3802, 4328, 1763, -47>>, <<9375, 3302, 8814, 1763, -47>>, <<5614, 9433, 13291, 1763, -47>>,
                 <<6347, 5789, 1376, 1764, -47>>, <<15172, 8732, 5836, 1764, -47>>, <<3609, 1858, 10288, 1764, -47>>,
                 <<9398, 1527, 14731, 1764, -47>>, <<5432, 7719, 2781, 1765, -47>>, <<14441, 4027, 7207, 1765, -47>>,
                 <<10691, 6815, 11624, 1765, -47>>, <<1902, 16061, 16032, 1765, -47>>, <<12869, 15358, 4048, 1766, -47>>,
                 <<3532, 4687, 8440, 1766, -47>>, <<61, 409, 12823, 1766, -47>>, <<12924, 2502, 813, 1767, -47>>,
                 <<4128, 10947, 5178, 1767, -47>>, <<1903, 9337, 9535, 1767, -47>>, <<2398, 14035, 13883, 1767, -47>>,
                 <<2452, 8636, 1839, 1768, -47>>, <<15972, 9502, 6170, 1768, -47>>, <<8406, 230, 10493, 1768, -47>>,
                 <<11423, 13565, 14806, 1768, -47>>, <<8229, 335, 2728, 1769, -47>>, <<15487, 9670, 7024, 1769, -47>>,
                 <<1397, 8783, 11312, 1769, -47>>, <<382, 14035, 15591, 1769, -47>>, <<14787, 9021, 3478, 1770, -47>>,
                 <<14879, 10106, 7740, 1770, -47>>, <<4378, 885, 11994, 1770, -47>>>>[k]
          [] d = 75 ->
               <<<<4082, 14104, 16238, 1770, -47>>, <<2706, 591, 4091, 1771, -47>>, <<6041, 9477, 8318, 1771, -47>>,
                 <<4183, 7974, 12537, 1771, -47>>, <<4299, 12445, 363, 1772, -47>>, <<14249, 6485, 4565, 1772, -47>>,
                 <<9813, 6459, 8758, 1772, -47>>, <<228, 12346, 12942, 1772, -47>>, <<11806, 7740, 734, 1773, -47>>,
                 <<6013, 9007, 4901, 1773, -47>>, <<10541, 16125, 9059, 1773, -47>>, <<4619, 12691, 13209, 1773, -47>>,
                 <<937, 15068, 966, 1774, -47>>, <<12871, 6851, 5099, 1774, -47>>, <<5341, 4406, 9223, 1774, -47>>,
                 <<9487, 7711, 13338, 1774, -47>>, <<7994, 363, 1061, 1775, -47>>, <<618, 15110, 5158, 1775, -47>>,
                 <<4192, 2779, 9248, 1775, -47>>, <<3468, 12503, 13328, 1775, -47>>, <<278, 11494, 1016, 1776, -47>>,
                 <<13527, 16115, 5079, 1776, -47>>, <<13659, 9964, 9134, 1776, -47>>, <<4576, 9405, 13180, 1776, -47>>,
                 <<7258, 14417, 833, 1777, -47>>, <<10609, 8597, 4862, 1777, -47>>, <<4220, 8310, 8882, 1777, -47>>,
                 <<11147, 13535, 12893, 1777, -47>>, <<5984, 7870, 512, 1778, -47>>, <<13167, 7678, 4506, 1778, -47>>,
                 <<8674, 12941, 8491, 1778, -47>>, <<1944, 7255, 12468, 1778, -47>>>>[k]
          [] d = 76 ->
               <<<<3104, 6984, 52, 1779, -47>>, <<6595, 12109, 4011, 1779, -47>>, <<7546, 6227, 7962, 1779, -47>>,
                 <<1781, 5703, 11904, 1779, -47>>, <<2198, 10517, 15837, 1779, -47>>, <<6007, 4266, 3378, 1780, -47>>,
                 <<11107, 3315, 7294, 1780, -47>>, <<16094, 7645, 11201, 1780, -47>>, <<3869, 854, 15100, 1780, -47>>,
                 <<7181, 15689, 2605, 1781, -47>>, <<10318, 2980, 6487, 1781, -47>>, <<14647, 11860, 10359, 1781, -47>>,
                 <<5843, 9543, 14223, 1781, -47>>, <<3042, 12393, 1694, 1782, -47>>, <<9693, 4007, 5541, 1782, -47>>,
                 <<13549, 751, 9379, 1782, -47>>, <<3062, 2607, 13208, 1782, -47>>, <<142, 9555, 644, 1783, -47>>,
                 <<11011, 5192, 4456, 1783, -47>>, <<9815, 5885, 8259, 1783, -47>>, <<4165, 11615, 12053, 1783, -47>>,
                 <<2363, 5979, 15839, 1783, -47>>, <<13407, 5342, 3232, 1784, -47>>, <<14223, 9687, 7000, 1784, -47>>,
                 <<15194, 2611, 10760, 1784, -47>>, <<11019, 480, 14511, 1784, -47>>, <<13472, 3275, 1869, 1785, -47>>,
                 <<2257, 10979, 5602, 1785, -47>>, <<6921, 7188, 9327, 1785, -47>>, <<8557, 8269, 13043, 1785, -47>>,
                 <<5335, 14204, 366, 1786, -47>>, <<12505, 8590, 4065, 1786, -47>>>>[k]
          [] d = 77 ->
               <<<<13243, 7794, 7755, 1786, -47>>, <<7806, 11798, 11436, 1786, -47>>, <<13529, 4199, 15109, 1786, -47>>,
                 <<15675, 1364, 2389, 1787, -47>>, <<201, 3276, 6044, 1787, -47>>, <<2914, 9915, 9690, 1787, -47>>,
                 <<11162, 4880, 13328, 1787, -47>>, <<12991, 4538, 573, 1788, -47>>, <<13526, 8871, 4193, 1788, -47>>,
                 <<2204, 1478, 7805, 1788, -47>>, <<1924, 15108, 11407, 1788, -47>>, <<3516, 592, 15002, 1788, -47>>,
                 <<14889, 7064, 2203, 1789, -47>>, <<11881, 1740, 5780, 1789, -47>>, <<3792, 986, 9348, 1789, -47>>,
                 <<620, 4784, 12907, 1789, -47>>, <<13060, 13116, 73, 1790, -47>>, <<3351, 9583, 3615, 1790, -47>>,
                 <<16349, 10549, 7148, 1790, -47>>, <<15686, 15999, 10672, 1790, -47>>, <<14844, 9531, 14188, 1790, -47>>,
                 <<11615, 7512, 1311, 1791, -47>>, <<4492, 9925, 4809, 1791, -47>>, <<9048, 368, 8299, 1791, -47>>,
                 <<8782, 11593, 11779, 1791, -47>>, <<4279, 10815, 15251, 1791, -47>>, <<13202, 14400, 2330, 1792, -47>>,
                 <<4760, 5949, 5785, 1792, -47>>, <<14397, 1827, 9231, 1792, -47>>, <<12716, 2019, 12668, 1792, -47>>,
                 <<3788, 6508, 16096, 1792, -47>>, <<8766, 15276, 3131, 1793, -47>>>>[k]
          [] d = 78 ->
               <<<<345, 11924, 6542, 1793, -47>>, <<1075, 12818, 9944, 1793, -47>>, <<1433, 1558, 13338, 1793, -47>>,
                 <<8978, 10895, 338, 1794, -47>>, <<15585, 8045, 3714, 1794, -47>>, <<13824, 9376, 7081, 1794, -47>>,
                 <<13352, 14871, 10439, 1794, -47>>, <<8136, 8130, 13789, 1794, -47>>, <<9228, 5520, 746, 1795, -47>>,
                 <<11993, 7025, 4078, 1795, -47>>, <<12496, 12629, 7401, 1795, -47>>, <<7499, 5932, 10716, 1795, -47>>,
                 <<10850, 3301, 14022, 1795, -47>>, <<4323, 4721, 935, 1796, -47>>, <<3164, 10175, 4223, 1796, -47>>,
                 <<6931, 3263, 7503, 1796, -47>>, <<15881, 353, 10774, 1796, -47>>, <<14588, 1430, 14036, 1796, -47>>,
                 <<4708, 6478, 905, 1797, -47>>, <<4981, 15480, 4149, 1797, -47>>, <<2076, 12037, 7385, 1797, -47>>,
                 <<16133, 12516, 10612, 1797, -47>>, <<2453, 520, 13831, 1797, -47>>, <<15344, 8798, 656, 1798, -47>>,
                 <<11505, 4569, 3857, 1798, -47>>, <<13874, 4200, 7049, 1798, -47>>, <<13320, 7676, 10232, 1798, -47>>,
                 <<1412, 14982, 13406, 1798, -47>>, <<3187, 9717, 188, 1799, -47>>, <<11613, 8250, 3345, 1799, -47>>,
                 <<3977, 10567, 6493, 1799, -47>>, <<7416, 267, 9633, 1799, -47>>>>[k]
          [] d = 79 ->
               <<<<615, 10104, 12763, 1799, -47>>, <<12113, 7293, 15885, 1799, -47>>, <<5612, 8205, 2614, 1800, -47>>,
                 <<11051, 12823, 5718, 1800, -47>>, <<9921, 4749, 8814, 1800, -47>>, <<790, 352, 11901, 1800, -47>>,
                 <<15701, 15999, 14978, 1800, -47>>, <<5477, 2526, 1664, 1801, -47>>, <<3561, 9068, 4724, 1801, -47>>,
                 <<11326, 2842, 7776, 1801, -47>>, <<14470, 218, 10819, 1801, -47>>, <<15768, 1181, 13853, 1801, -47>>,
                 <<2316, 5717, 494, 1802, -47>>, <<11063, 13809, 3510, 1802, -47>>, <<14122, 9060, 6518, 1802, -47>>,
                 <<694, 7840, 9517, 1802, -47>>, <<9832, 10132, 12507, 1802, -47>>, <<15752, 15923, 15488, 1802, -47>>,
                 <<9760, 8815, 2077, 1803, -47>>, <<247, 5177, 5041, 1803, -47>>, <<12685, 4993, 7996, 1803, -47>>,
                 <<7719, 8251, 10942, 1803, -47>>, <<12226, 14935, 13879, 1803, -47>>, <<4637, 8648, 424, 1804, -47>>,
                 <<13235, 5758, 3344, 1804, -47>>, <<1468, 6253, 6255, 1804, -47>>, <<15410, 10116, 9157, 1804, -47>>,
                 <<3529, 952, 12051, 1804, -47>>, <<13302, 11512, 14935, 1804, -47>>, <<10988, 9016, 1427, 1805, -47>>,
                 <<12699, 9833, 4294, 1805, -47>>, <<2484, 13950, 7152, 1805, -47>>>>[k]
          [] d = 80 ->
               <<<<14244, 4967, 10002, 1805, -47>>, <<666, 15641, 12842, 1805, -47>>, <<13440, 13187, 15674, 1805, -47>>,
                 <<6656, 13978, 2113, 1806, -47>>, <<645, 1615, 4928, 1806, -47>>, <<54, 8852, 7733, 1806, -47>>,
                 <<10235, 2907, 10530, 1806, -47>>, <<4474, 152, 13318, 1806, -47>>, <<5913, 572, 16097, 1806, -47>>,
                 <<5628, 4154, 2483, 1807, -47>>, <<11784, 10884, 5244, 1807, -47>>, <<479, 4366, 7997, 1807, -47>>,
                 <<14054, 968, 10741, 1807, -47>>, <<13628, 679, 13476, 1807, -47>>, <<10182, 3485, 16202, 1807, -47>>,
                 <<15395, 9372, 2535, 1808, -47>>, <<8884, 1944, 5244, 1808, -47>>, <<3739, 13955, 7943, 1808, -47>>,
                 <<13752, 12623, 10634, 1808, -47>>, <<4267, 14321, 13316, 1808, -47>>, <<6870, 2650, 15990, 1808, -47>>,
                 <<4696, 10366, 2270, 1809, -47>>, <<14352, 4687, 4926, 1809, -47>>, <<4000, 1986, 7573, 1809, -47>>,
                 <<8041, 2248, 10211, 1809, -47>>, <<12426, 5461, 12840, 1809, -47>>, <<3815, 11613, 15460, 1809, -47>>,
                 <<2336, 4306, 1688, 1810, -47>>, <<12437, 16295, 4290, 1810, -47>>, <<6508, 14801, 6884, 1810, -47>>,
                 <<6789, 16194, 9469, 1810, -47>>, <<3462, 4078, 12046, 1810, -47>>>>[k]
          [] d = 81 ->
               <<<<3793, 11208, 14613, 1810, -47>>, <<15757, 4803, 788, 1811, -47>>, <<15262, 1236, 3338, 1811, -47>>,
                 <<11692, 494, 5879, 1811, -47>>, <<15134, 2564, 8411, 1811, -47>>, <<3612, 7435, 10934, 1811, -47>>,
                 <<5009, 15093, 13448, 1811, -47>>, <<15143, 9142, 15954, 1811, -47>>, <<14152, 5955, 2067, 1812, -47>>,
                 <<15652, 5519, 4555, 1812, -47>>, <<1192, 7823, 7034, 1812, -47>>, <<2179, 12853, 9504, 1812, -47>>,
                 <<1575, 4214, 11966, 1812, -47>>, <<15813, 14661, 14418, 1812, -47>>, <<12883, 11416, 478, 1813, -47>>,
                 <<10629, 10850, 2913, 1813, -47>>, <<11220, 12951, 5339, 1813, -47>>, <<1143, 1324, 7757, 1813, -47>>,
                 <<361, 8724, 10165, 1813, -47>>, <<13159, 2371, 12565, 1813, -47>>, <<11758, 15023, 14955, 1813, -47>>,
                 <<1856, 13900, 953, 1814, -47>>, <<6238, 15373, 3326, 1814, -47>>, <<15628, 3047, 5691, 1814, -47>>,
                 <<5073, 9680, 8046, 1814, -47>>, <<15861, 2490, 10393, 1814, -47>>, <<8066, 14236, 12730, 1814, -47>>,
                 <<8006, 12137, 15059, 1814, -47>>, <<9935, 12566, 995, 1815, -47>>, <<8816, 15512, 3306, 1815, -47>>,
                 <<316, 4580, 5609, 1815, -47>>, <<13576, 12525, 7902, 1815, -47>>>>[k]
          [] d = 82 ->
               <<<<12911, 6570, 10187, 1815, -47>>, <<12492, 3087, 12463, 1815, -47>>, <<10812, 2065, 14730, 1815, -47>>,
                 <<7073, 3493, 604, 1816, -47>>, <<1182, 7360, 2853, 1816, -47>>, <<10138, 13654, 5093, 1816, -47>>,
                 <<2493, 5982, 7325, 1816, -47>>, <<13045, 715, 9548, 1816, -47>>, <<11759, 14228, 11761, 1816, -47>>,
                 <<2078, 13742, 13966, 1816, -47>>, <<4536, 15629, 16162, 1816, -47>>, <<7603, 3495, 1966, 1817, -47>>,
                 <<461, 10098, 4144, 1817, -47>>, <<5762, 2658, 6314, 1817, -47>>, <<14102, 13933, 8474, 1817, -47>>,
                 <<398, 11146, 10626, 1817, -47>>, <<5809, 10668, 12769, 1817, -47>>, <<6668, 12490, 14903, 1817, -47>>,
                 <<12783, 217, 645, 1818, -47>>, <<1900, 6608, 2761, 1818, -47>>, <<1627, 15267, 4868, 1818, -47>>,
                 <<7509, 9800, 6967, 1818, -47>>, <<15800, 6581, 9057, 1818, -47>>, <<7077, 5601, 11138, 1818, -47>>,
                 <<11779, 6848, 13210, 1818, -47>>, <<11898, 10313, 15273, 1818, -47>>, <<6521, 15986, 943, 1819, -47>>,
                 <<11822, 7472, 2989, 1819, -47>>, <<11920, 1146, 5026, 1819, -47>>, <<8022, 13382, 7053, 1819, -47>>,
                 <<2048, 11402, 9072, 1819, -47>>, <<13005, 11579, 11082, 1819, -47>>>>[k]
          [] d = 83 ->
               <<<<11459, 13905, 13083, 1819, -47>>, <<1452, 1986, 15076, 1819, -47>>, <<4117, 8579, 675, 1820, -47>>,
                 <<8529, 907, 2650, 1820, -47>>, <<4470, 11729, 4615, 1820, -47>>, <<15198, 8266, 6572, 1820, -47>>,
                 <<15530, 6894, 8520, 1820, -47>>, <<13756, 7603, 10459, 1820, -47>>, <<2495, 10384, 12389, 1820, -47>>,
                 <<7837, 15226, 14310, 1820, -47>>, <<7433, 5737, 16223, 1820, -47>>, <<12409, 14675, 1742, 1821, -47>>,
                 <<1833, 9264, 3637, 1821, -47>>, <<4632, 5877, 5523, 1821, -47>>, <<1290, 4506, 7400, 1821, -47>>,
                 <<5769, 5141, 9268, 1821, -47>>, <<16354, 7773, 11127, 1821, -47>>, <<15660, 12394, 12977, 1821, -47>>,
                 <<3386, 2611, 14819, 1821, -47>>, <<12718, 11181, 267, 1822, -47>>, <<12008, 5329, 2091, 1822, -47>>,
                 <<3088, 1430, 3906, 1822, -47>>, <<4882, 15858, 5711, 1822, -47>>, <<4258, 15837, 7508, 1822, -47>>,
                 <<5172, 1358, 9297, 1822, -47>>, <<12294, 5180, 11076, 1822, -47>>, <<14619, 10911, 12846, 1822, -47>>,
                 <<1849, 2159, 14608, 1822, -47>>, <<13548, 11681, 16360, 1822, -47>>, <<8071, 6703, 1720, 1823, -47>>,
                 <<10016, 3599, 3455, 1823, -47>>, <<11926, 2361, 5181, 1823, -47>>>>[k]
          [] d = 84 ->
               <<<<7051, 2981, 6898, 1823, -47>>, <<5736, 5450, 8606, 1823, -47>>, <<2649, 9760, 10305, 1823, -47>>,
                 <<9555, 15902, 11995, 1823, -47>>, <<6160, 7485, 13677, 1823, -47>>, <<5645, 884, 15350, 1823, -47>>,
                 <<5521, 12475, 629, 1824, -47>>, <<4008, 9482, 2284, 1824, -47>>, <<32, 8281, 3930, 1824, -47>>,
                 <<9618, 8863, 5567, 1824, -47>>, <<345, 11222, 7195, 1824, -47>>, <<6041, 15348, 8814, 1824, -47>>,
                 <<12091, 4850, 10425, 1824, -47>>, <<4588, 12489, 12026, 1824, -47>>, <<3108, 5488, 13619, 1824, -47>>,
                 <<11549, 223, 15203, 1824, -47>>, <<1752, 13072, 393, 1825, -47>>, <<11805, 11257, 1959, 1825, -47>>,
                 <<14971, 11156, 3516, 1825, -47>>, <<1605, 12762, 5064, 1825, -47>>, <<11927, 16065, 6603, 1825, -47>>,
                 <<4945, 4676, 8134, 1825, -47>>, <<5915, 11354, 9655, 1825, -47>>, <<8036, 3324, 11168, 1825, -47>>,
                 <<5216, 13347, 12671, 1825, -47>>, <<8458, 8647, 14166, 1825, -47>>, <<13091, 5601, 15652, 1825, -47>>,
                 <<15157, 4202, 745, 1826, -47>>, <<11406, 4443, 2213, 1826, -47>>, <<15683, 6316, 3672, 1826, -47>>,
                 <<9778, 9815, 5122, 1826, -47>>, <<8957, 14932, 6563, 1826, -47>>>>[k]
          [] d = 85 ->
               <<<<12815, 5276, 7996, 1826, -47>>, <<5272, 13609, 9419, 1826, -47>>, <<3728, 7155, 10834, 1826, -47>>,
                 <<9910, 2291, 12240, 1826, -47>>, <<9870, 15395, 13636, 1826, -47>>, <<6758, 13692, 15024, 1826, -47>>,
                 <<4433, 13559, 19, 1827, -47>>, <<7465, 14989, 1389, 1827, -47>>, <<4753, 1592, 2751, 1827, -47>>,
                 <<2288, 6129, 4103, 1827, -47>>, <<6774, 12209, 5446, 1827, -47>>, <<9243, 3442, 6781, 1827, -47>>,
                 <<1437, 12590, 8106, 1827, -47>>, <<8576, 6877, 9423, 1827, -47>>, <<7441, 2682, 10731, 1827, -47>>,
                 <<8293, 16382, 12029, 1827, -47>>, <<5719, 15203, 13319, 1827, -47>>, <<11401, 15522, 14600, 1827, -47>>,
                 <<4966, 950, 15873, 1827, -47>>, <<15901, 4247, 752, 1828, -47>>, <<8873, 9025, 2006, 1828, -47>>,
                 <<14794, 15276, 3251, 1828, -47>>, <<16135, 6611, 4488, 1828, -47>>, <<12463, 15792, 5715, 1828, -47>>,
                 <<4059, 10045, 6934, 1828, -47>>, <<8294, 5747, 8144, 1828, -47>>, <<10489, 2893, 9345, 1828, -47>>,
                 <<13056, 1477, 10537, 1828, -47>>, <<2738, 1494, 11720, 1828, -47>>, <<16139, 2936, 12894, 1828, -47>>,
                 <<8655, 5800, 14059, 1828, -47>>, <<1932, 10079, 15215, 1828, -47>>>>[k]
          [] d = 86 ->
               <<<<1943, 15767, 16362, 1828, -47>>, <<15370, 6474, 1117, 1829, -47>>, <<458, 14965, 2246, 1829, -47>>,
                 <<14467, 8463, 3367, 1829, -47>>, <<681, 3350, 4479, 1829, -47>>, <<1400, 16002, 5581, 1829, -47>>,
                 <<10482, 13646, 6675, 1829, -47>>, <<6116, 12662, 7760, 1829, -47>>, <<16352, 13043, 8836, 1829, -47>>,
                 <<4420, 14786, 9903, 1829, -47>>, <<16179, 1499, 10962, 1829, -47>>, <<16280, 5947, 12011, 1829, -47>>,
                 <<2855, 11741, 13051, 1829, -47>>, <<7516, 2490, 14083, 1829, -47>>, <<13436, 10958, 15105, 1829, -47>>,
                 <<4498, 4373, 16119, 1829, -47>>, <<14451, 15496, 739, 1830, -47>>, <<12221, 11556, 1735, 1830, -47>>,
                 <<211, 8932, 2722, 1830, -47>>, <<14308, 7617, 3700, 1830, -47>>, <<9188, 7609, 4669, 1830, -47>>,
                 <<5777, 8902, 5629, 1830, -47>>, <<9331, 11491, 6580, 1830, -47>>, <<9431, 15372, 7522, 1830, -47>>,
                 <<12756, 4156, 8456, 1830, -47>>, <<10315, 10607, 9380, 1830, -47>>, <<10210, 1952, 10296, 1830, -47>>,
                 <<4873, 10955, 11202, 1830, -47>>, <<3834, 4843, 12100, 1830, -47>>, <<950, 16380, 12988, 1830, -47>>,
                 <<7175, 12793, 13868, 1830, -47>>, <<1406, 10463, 14739, 1830, -47>>>>[k]
          [] d = 87 ->
               <<<<12407, 9384, 15601, 1830, -47>>, <<4117, 9554, 70, 1831, -47>>, <<6724, 10967, 914, 1831, -47>>,
                 <<1977, 13620, 1749, 1831, -47>>, <<5105, 1124, 2576, 1831, -47>>, <<15666, 6243, 3393, 1831, -47>>,
                 <<1163, 12591, 4201, 1831, -47>>, <<11731, 3777, 5001, 1831, -47>>, <<16298, 12567, 5791, 1831, -47>>,
                 <<889, 6190, 6573, 1831, -47>>, <<1393, 1024, 7346, 1831, -47>>, <<5261, 13450, 8109, 1831, -47>>,
                 <<655, 10697, 8864, 1831, -47>>, <<9220, 9144, 9610, 1831, -47>>, <<4162, 8789, 10347, 1831, -47>>,
                 <<8548, 9627, 11075, 1831, -47>>, <<13394, 11655, 11794, 1831, -47>>, <<10427, 14870, 12504, 1831, -47>>,
                 <<8471, 2884, 13206, 1831, -47>>, <<679, 8462, 13898, 1831, -47>>, <<13686, 15215, 14581, 1831, -47>>,
                 <<9302, 6758, 15256, 1831, -47>>, <<15588, 15854, 15921, 1831, -47>>, <<12164, 9733, 194, 1832, -47>>,
                 <<12134, 4775, 842, 1832, -47>>, <<12926, 977, 1481, 1832, -47>>, <<12687, 14720, 2110, 1832, -47>>,
                 <<10272, 13233, 2731, 1832, -47>>, <<5253, 12897, 3343, 1832, -47>>, <<14295, 13708, 3946, 1832, -47>>,
                 <<5627, 15665, 4540, 1832, -47>>, <<13728, 2379, 5126, 1832, -47>>>>[k]
          [] d = 88 ->
               <<<<8251, 6617, 5702, 1832, -47>>, <<8715, 11991, 6269, 1832, -47>>, <<2587, 2115, 6828, 1832, -47>>,
                 <<10812, 9753, 7377, 1832, -47>>, <<5896, 2136, 7918, 1832, -47>>, <<10212, 12028, 8449, 1832, -47>>,
                 <<14078, 6659, 8972, 1832, -47>>, <<8525, 2411, 9486, 1832, -47>>, <<1679, 15665, 9990, 1832, -47>>,
                 <<2384, 13650, 10486, 1832, -47>>, <<3808, 12748, 10973, 1832, -47>>, <<16221, 12956, 11451, 1832, -47>>,
                 <<1449, 14274, 11920, 1832, -47>>, <<3957, 313, 12381, 1832, -47>>, <<3383, 3840, 12832, 1832, -47>>,
                 <<12848, 8468, 13274, 1832, -47>>, <<13418, 14196, 13707, 1832, -47>>, <<3258, 4638, 14132, 1832, -47>>,
                 <<14011, 12558, 14547, 1832, -47>>, <<12499, 5188, 14954, 1832, -47>>, <<15411, 15293, 15351, 1832, -47>>,
                 <<7378, 10104, 15740, 1832, -47>>, <<6516, 6002, 16120, 1832, -47>>, <<15268, 2985, 107, 1833, -47>>,
                 <<4024, 1053, 469, 1833, -47>>, <<9419, 202, 822, 1833, -47>>, <<3273, 432, 1166, 1833, -47>>,
                 <<7265, 1740, 1501, 1833, -47>>, <<11021, 4125, 1827, 1833, -47>>, <<4883, 7586, 2144, 1833, -47>>,
                 <<12672, 12120, 2452, 1833, -47>>, <<9770, 1343, 2752, 1833, -47>>>>[k]
          [] d = 89 ->
               <<<<5043, 8021, 3042, 1833, -47>>, <<8067, 15768, 3323, 1833, -47>>, <<12751, 8199, 3596, 1833, -47>>,
                 <<13715, 1697, 3860, 1833, -47>>, <<6292, 12645, 4114, 1833, -47>>, <<2917, 8273, 4360, 1833, -47>>,
                 <<350, 4964, 4597, 1833, -47>>, <<12449, 2716, 4825, 1833, -47>>, <<4634, 1530, 5044, 1833, -47>>,
                 <<8577, 1403, 5254, 1833, -47>>, <<7507, 2335, 5455, 1833, -47>>, <<1755, 4325, 5647, 1833, -47>>,
                 <<8745, 7371, 5830, 1833, -47>>, <<13851, 11473, 6004, 1833, -47>>, <<3158, 247, 6170, 1833, -47>>,
                 <<12616, 6458, 6326, 1833, -47>>, <<13355, 13723, 6473, 1833, -47>>, <<9984, 5657, 6612, 1833, -47>>,
                 <<7827, 15027, 6741, 1833, -47>>, <<12921, 9064, 6862, 1833, -47>>, <<15634, 4152, 6974, 1833, -47>>,
                 <<7044, 291, 7077, 1833, -47>>, <<11715, 13863, 7170, 1833, -47>>, <<5770, 12101, 7255, 1833, -47>>,
                 <<15197, 11387, 7331, 1833, -47>>, <<1164, 11723, 7398, 1833, -47>>, <<7471, 13106, 7456, 1833, -47>>,
                 <<13094, 15537, 7505, 1833, -47>>, <<14111, 2632, 7546, 1833, -47>>, <<7308, 7159, 7577, 1833, -47>>,
                 <<6574, 12733, 7599, 1833, -47>>, <<10125, 2970, 7613, 1833, -47>>>>[k]
          [] d = 90 ->
               <<<<504, 10639, 7617, 1833, -47>>>>[k]

\* np.degrees(np.sin(np.radians(edge))) of an angle in ticks
DegSin(ticks) ==
    WithSign(F64Entry(DegSinTable(Abs(ticks))), IF ticks < 0 THEN 1 ELSE 0)

\* (rafac*decfac)[j] of a row of ncol columns between the edges declo and dechi
AreaOf(ncol, j, declo, dechi) ==
    F64Mul(F64Sub(EdgesRa(ncol, j + 1), EdgesRa(ncol, j)),
           F64Sub(DegSin(dechi), DegSin(declo)))

\* brickarea[i][j] = (rafac*decfac)[j] with
\* decfac = np.diff(np.degrees(np.sin(np.radians(edges_dec[i:i+2])))) and
\* rafac = np.diff(edges_ra[i])
BrickAreaOf(bricksize, i, j) ==
    AreaOf(NcolPerRow(bricksize, i), j, EdgesDec(bricksize, i), EdgesDec(bricksize, i + 1))

\* the attributes __init__ assigns (lines 96-104), ncol being ncol_per_row
BricksWith(bricksize, nrow, ncol) ==
    [type |-> "Bricks",
     _bricksize |-> bricksize,
     _ncol_per_row |-> ncol,
     _brickname |-> [i \in 0..(nrow - 1) |->
                        [j \in 0..(ncol[i] - 1) |-> BrickNameOf(bricksize, i, j)]],
     _brickarea |-> [i \in 0..(nrow - 1) |->
                        [j \in 0..(ncol[i] - 1) |-> BrickAreaOf(bricksize, i, j)]],
     _center_dec |-> [i \in 0..(nrow - 1) |-> CenterDec(bricksize, i)],
     _edges_dec |-> [i \in 0..nrow |-> EdgesDec(bricksize, i)],
     _center_ra |-> [i \in 0..(nrow - 1) |->
                        [j \in 0..(ncol[i] - 1) |-> CenterRa(ncol[i], j)]],
     _edges_ra |-> [i \in 0..(nrow - 1) |-> [j \in 0..ncol[i] |-> EdgesRa(ncol[i], j)]],
     _brick_table |-> None]

\* Bricks(bricksize): the object __init__ leaves behind
BricksInit(bricksize) ==
    BricksWith(bricksize, NRow(bricksize),
               [i \in 0..(NRow(bricksize) - 1) |-> NcolPerRow(bricksize, i)])

\* len(self._center_dec)
RowCount(self) == Cardinality(DOMAIN self._center_dec)

(***************************************************************************)
(* The lookups.                                                             *)
(***************************************************************************)
\* Bricks._array_radec: <<ara, adec>> with ara = np.atleast_1d(ra) % 360
_array_radec(ra, dec) ==
    LET r == AtLeast1d(ra)
    IN  <<[k \in DOMAIN r |-> F64Mod(r[k], DegFull)], AtLeast1d(dec)>>

\* row = ((dec+90.0+self._bricksize/2)/self._bricksize).astype(int)
RowOf(self, dec) ==
    TruncDiv(dec + DegPole * TicksPerDeg + self._bricksize \div 2, self._bricksize)

\* (ra/360.0 * self._ncol_per_row[row]).astype(int)
ColOf(self, ra, row) ==
    F64Trunc(F64MulInt(F64DivInt(ra, DegFull),
                       self._ncol_per_row[PyIndex(row, RowCount(self))]))

\* Bricks._row_col on arrays: <<irow, icol>>, or IndexError when some row does
\* not index self._ncol_per_row
_row_col(self, ara, adec) ==
    LET irow == [k \in DOMAIN adec |-> RowOf(self, adec[k])]
    IN  IF \E k \in DOMAIN irow : ~PyInRange(irow[k], RowCount(self))
        THEN Raise("IndexError")
        ELSE Tuple2(irow, [k \in DOMAIN ara |-> ColOf(self, ara[k], irow[k])])

\* the return of a lookup: the first element when np.isscalar(ra)
ScalarOrArray(ra, values) == IF IsScalar(ra) THEN Scalar(values[1]) ELSE Array(values)

\* whether every icol[k] indexes the columns of row irow[k]
ColsInRow(self, irow, icol) ==
    \A k \in DOMAIN irow :
        icol[k] < self._ncol_per_row[PyIndex(irow[k], RowCount(self))]

\* ara, adec = self._array_radec(ra, dec); irow, icol = self._row_col(ara, adec)
Located(self, a) == _row_col(self, a[1], a[2])
Locate(self, ra, dec) == Located(self, _array_radec(ra, dec))

\* the names of the bricks at rc = (irow, icol); np.array(self._brickname[
\* thisrow])[icol[these]] raises for a column beyond the row
NamesAt(self, ra, rc) ==
    IF rc.type = "raise" THEN rc
    ELSE IF ~ColsInRow(self, rc.v[1], rc.v[2]) THEN Raise("IndexError")
    ELSE ScalarOrArray(ra, [k \in DOMAIN rc.v[1] |->
             self._brickname[PyIndex(rc.v[1][k], RowCount(self))][rc.v[2][k]]])

\* Bricks.brickname
brickname(self, ra, dec) == NamesAt(self, ra, Locate(self, ra, dec))

RECURSIVE CumSum(_, _)
\* np.cumsum(np.append(0, ncol))[i]: the columns of the rows before row i
CumSum(ncol, i) == IF i = 0 THEN 0 ELSE CumSum(ncol, i - 1) + ncol[i - 1]

\* the ids of the bricks at rc = (irow, icol): self._ncolsum[irow] + icol + 1
IdsAt(self, ra, rc) ==
    IF rc.type = "raise" THEN rc
    ELSE ScalarOrArray(ra, [k \in DOMAIN rc.v[1] |->
             CumSum(self._ncol_per_row, PyIndex(rc.v[1][k], RowCount(self) + 1))
             + rc.v[2][k] + 1])

\* Bricks.brickid
brickid(self, ra, dec) == IdsAt(self, ra, Locate(self, ra, dec))

\* quadrants numbered from 1
QuadrantOf_OneBased(row, col) == IF row = 0 THEN 1 ELSE (col % 2) + (row % 2) * 2 + 1

\* (icol % 2) + (irow % 2)*2, then brickq[irow == 0] = 1
QuadrantOf(row, col) == IF row = 0 THEN 1 ELSE (col % 2) + (row % 2) * 2

\* the quadrants of the bricks at rc = (irow, icol)
QuadrantsAt(self, ra, rc) ==
    IF rc.type = "raise" THEN rc
    ELSE ScalarOrArray(ra, [k \in DOMAIN rc.v[1] |-> QuadrantOf(rc.v[1][k], rc.v[2][k])])

\* Bricks.brickq
brickq(self, ra, dec) == QuadrantsAt(self, ra, Locate(self, ra, dec))

\* the areas of the bricks at rc = (irow, icol), stored in an array of dtype
\* '<f4'; np.array(self._brickarea[row])[icol[cols]] raises for a column beyond
\* the row
AreasAt(self, ra, rc) ==
    IF rc.type = "raise" THEN rc
    ELSE IF ~ColsInRow(self, rc.v[1], rc.v[2]) THEN Raise("IndexError")
    ELSE ScalarOrArray(ra, [k \in DOMAIN rc.v[1] |->
             F32(self._brickarea[PyIndex(rc.v[1][k], RowCount(self))][rc.v[2][k]])])

\* Bricks.brickarea
brickarea(self, ra, dec) == AreasAt(self, ra, Locate(self, ra, dec))

\* one brick's vertices, counter-clockwise from (ramin, decmin)
VerticesOf(self, row, col) ==
    LET r == PyIndex(row, RowCount(self))
        ramin == self._edges_ra[r][col]
        ramax == self._edges_ra[r][col + 1]
        decmin == self._edges_dec[PyIndex(row, RowCount(self) + 1)]
        decmax == self._edges_dec[PyIndex(row + 1, RowCount(self) + 1)]
    IN  <<<<ramin, decmin>>, <<ramax, decmin>>, <<ramax, decmax>>, <<ramin, decmax>>>>

\* the vertices of the bricks at rc = (irow, icol); unpacking ramin, ramax
\* raises when the array of the slices self._edges_ra[row][col:col+2] is empty
\* or has a slice of one edge (a column beyond the row)
VerticesAt(self, ra, rc) ==
    IF rc.type = "raise" THEN rc
    ELSE IF Len(rc.v[1]) = 0 THEN Raise("ValueError")
    ELSE IF ~ColsInRow(self, rc.v[1], rc.v[2]) THEN Raise("ValueError")
    ELSE ScalarOrArray(ra, [k \in DOMAIN rc.v[1] |->
             VerticesOf(self, rc.v[1][k], rc.v[2][k])])

\* Bricks.brickvertices
brickvertices(self, ra, dec) == VerticesAt(self, ra, Locate(self, ra, dec))

\* Bricks.brick_radec, the array branch: (xra, xdec)
RadecArrays(self, irow, icol) ==
    Tuple2(Array([k \in DOMAIN irow |->
                     self._center_ra[PyIndex(irow[k], RowCount(self))][icol[k]]]),
           Array([k \in DOMAIN irow |->
                     self._center_dec[PyIndex(irow[k], RowCount(self))]]))

\* the centres of the bricks at rc = (irow, icol): the set of results the call
\* can have.  In the scalar branch self._center_ra (a list) is indexed with the
\* one-element array irow: a numpy that converts it to an index yields
\* one-element arrays, a numpy that does not raises TypeError.
\* self._center_ra[i][j] raises for a column beyond the row.
RadecAt(self, ra, rc) ==
    IF rc.type = "raise" THEN {rc}
    ELSE IF IsScalar(ra)
    THEN {Raise("TypeError"),
          IF ColsInRow(self, rc.v[1], rc.v[2]) THEN RadecArrays(self, rc.v[1], rc.v[2])
          ELSE Raise("IndexError")}
    ELSE {IF ColsInRow(self, rc.v[1], rc.v[2]) THEN RadecArrays(self, rc.v[1], rc.v[2])
          ELSE Raise("IndexError")}

\* Bricks.brick_radec
brick_radec(self, ra, dec) == RadecAt(self, ra, Locate(self, ra, dec))

RECURSIVE TableRows(_, _, _, _)
\* the loop of Bricks.to_table from (row, col) on, brick_id bricks done so far
TableRows(self, row, col, brick_id) ==
    IF row >= RowCount(self) THEN <<>>
    ELSE IF col >= Cardinality(DOMAIN self._center_ra[row])
         THEN TableRows(self, row + 1, 0, brick_id)
         ELSE <<[BRICKNAME |-> self._brickname[row][col],
                 BRICKID |-> brick_id + 1,
                 BRICKQ |-> IF row = 0 THEN 1 ELSE (col % 2) + (row % 2) * 2,
                 BRICKROW |-> row,
                 BRICKCOL |-> col,
                 RA |-> self._center_ra[row][col],
                 DEC |-> self._center_dec[row],
                 RA1 |-> self._edges_ra[row][col],
                 DEC1 |-> self._edges_dec[row],
                 RA2 |-> self._edges_ra[row][col + 1],
                 DEC2 |-> self._edges_dec[row + 1],
                 AREA |-> self._brickarea[row][col]]>>
              \o TableRows(self, row, col + 1, brick_id + 1)

\* Bricks.to_table: the cached table, built on the first call
to_table(self) ==
    IF self._brick_table.type = "None"
    THEN [type |-> "Table", rows |-> TableRows(self, 0, 0, 0),
          meta |-> self._bricksize]
    ELSE self._brick_table


(***************************************************************************)
(* The module-level brickname(ra, dec, bricksize) and its cache _bricks.    *)
(***************************************************************************)
\* a test of None only, and a test with the comparison turned round
NeedBuild_NoneOnly(cache, bricksize) == cache.type = "None"
NeedBuild_SameSize(cache, bricksize) ==
    IF cache.type = "None" THEN TRUE ELSE cache._bricksize = bricksize
\* _bricks is None or _bricks.bricksize != bricksize
NeedBuild(cache, bricksize) ==
    IF cache.type = "None" THEN TRUE ELSE cache._bricksize # bricksize

(***************************************************************************)
(* Bounds of the model.                                                     *)
(***************************************************************************)
\* the bricksizes of the grids, in degrees
BrickSizesDeg == {30, 40, 45, 50, 60, 90}
BrickSizes == {b * TicksPerDeg : b \in BrickSizesDeg}

\* Bricks(bricksize) for the bricksizes of the model, each built once
BricksOf == [b \in BrickSizes |-> BricksInit(b)]
Bricks(bricksize) == BricksOf[bricksize]

\* scalar right ascensions: k * RaStep degrees, from below 0 to above 360, the
\* doubles next below some column edges, and a negative ra of 2^-60 degree
RaStep == 12
RaBelow == 1
RaAbove == 31
RaEdgesDeg == {30, 60, 120, 180, 240, 252, 360}
RaInputs ==
    {F64(k * RaStep) : k \in (-RaBelow)..RaAbove}
        \cup {F64Pred(F64(d)) : d \in RaEdgesDeg}
        \cup {F64Scale(F64(-1), -60)}
\* the right ascensions of array inputs
ArrayRas == {F64(-RaStep), F64(DegFull \div 3)}

\* scalar declinations: half-brick steps from the south pole, DecPad of them
\* beyond the range in which some row index is accepted
DecPad == 3
DecInputs(bricksize) ==
    {-DegPole * TicksPerDeg + k * (bricksize \div 2) :
        k \in (-(2 * NRow(bricksize) + DecPad))..(2 * NRow(bricksize) + DecPad)}

\* array inputs: up to MaxLen coordinates out of ArrayCoords
MaxLen == 2
ArrayCoords(bricksize) ==
    {<<ra, dec>> : ra \in ArrayRas,
                   dec \in {-DegPole * TicksPerDeg,
                            -DegPole * TicksPerDeg + bricksize,
                            0,
                            DegPole * TicksPerDeg + bricksize}}

ScalarInputs(bricksize) ==
    {<<Scalar(ra), Scalar(dec)>> : ra \in RaInputs, dec \in DecInputs(bricksize)}
ArrayInputs(bricksize) ==
    {<<Array([k \in DOMAIN c |-> c[k][1]]), Array([k \in DOMAIN c |-> c[k][2]])>> :
        c \in UNION {[1..n -> ArrayCoords(bricksize)] : n \in 0..MaxLen}}
InputKinds == {"scalar", "array"}
Inputs(kind, bricksize) ==
    IF kind = "scalar" THEN ScalarInputs(bricksize) ELSE ArrayInputs(bricksize)

(***************************************************************************)
(* State.                                                                   *)
(***************************************************************************)
VARIABLES
    self,       \* the Bricks object whose methods are called
    call,       \* the last call: [op, ra, dec, bricksize]
    result,     \* what the last call returned or raised
    _bricks,    \* the module-level cache (brick.py line 342)
    built,      \* whether the last module-level brickname() ran Bricks(...)
    pc,         \* concurrent callers of brickname(): where each one stands
    req,        \* ... the arguments of its call
    ret,        \* ... the name it returned and the bricksize of the index used
    owner,      \* the caller that assigned the index _bricks holds, 0 if none
    nsize,      \* the bricksize of the grid whose bricks are being named
    nameA,      \* a brick of that grid with its name
    nameB       \* another one

cachevars == <<_bricks, built>>
racevars == <<pc, req, ret, owner>>
namevars == <<nsize, nameA, nameB>>
vars == <<self, call, result, cachevars, racevars, namevars>>

\* the two concurrent callers
Threads == {1, 2}

RaceIdle ==
    /\ pc = [t \in Threads |-> "idle"]
    /\ req = [t \in Threads |-> None]
    /\ ret = [t \in Threads |-> None]
    /\ owner = 0
NamesIdle == nsize = 0 /\ nameA = None /\ nameB = None

NoCall == [op |-> "none", ra |-> None, dec |-> None, bricksize |-> 0]
MethodCall(op, in) == [op |-> op, ra |-> in[1], dec |-> in[2], bricksize |-> 0]

(***************************************************************************)
(* Spec: one Bricks object and calls of its methods.                        *)
(***************************************************************************)
Init ==
    /\ self \in {Bricks(b) : b \in BrickSizes}
    /\ call = NoCall
    /\ result = None
    /\ _bricks = None
    /\ built = FALSE
    /\ RaceIdle
    /\ NamesIdle

Brickname ==
    /\ call = NoCall
    /\ \E kind \in InputKinds : \E in \in Inputs(kind, self._bricksize) :
        /\ call' = MethodCall("brickname", in)
        /\ result' = brickname(self, in[1], in[2])
        /\ UNCHANGED <<self, cachevars, racevars, namevars>>

Brickid ==
    /\ call = NoCall
    /\ \E kind \in InputKinds : \E in \in Inputs(kind, self._bricksize) :
        /\ call' = MethodCall("brickid", in)
        /\ result' = brickid(self, in[1], in[2])
        /\ UNCHANGED <<self, cachevars, racevars, namevars>>

Brickq ==
    /\ call = NoCall
    /\ \E kind \in InputKinds : \E in \in Inputs(kind, self._bricksize) :
        /\ call' = MethodCall("brickq", in)
        /\ result' = brickq(self, in[1], in[2])
        /\ UNCHANGED <<self, cachevars, racevars, namevars>>

Brickarea ==
    /\ call = NoCall
    /\ \E kind \in InputKinds : \E in \in Inputs(kind, self._bricksize) :
        /\ call' = MethodCall("brickarea", in)
        /\ result' = brickarea(self, in[1], in[2])
        /\ UNCHANGED <<self, cachevars, racevars, namevars>>

Brickvertices ==
    /\ call = NoCall
    /\ \E kind \in InputKinds : \E in \in Inputs(kind, self._bricksize) :
        /\ call' = MethodCall("brickvertices", in)
        /\ result' = brickvertices(self, in[1], in[2])
        /\ UNCHANGED <<self, cachevars, racevars, namevars>>

BrickRadec ==
    /\ call = NoCall
    /\ \E kind \in InputKinds : \E in \in Inputs(kind, self._bricksize) :
        /\ call' = MethodCall("brick_radec", in)
        /\ result' \in brick_radec(self, in[1], in[2])
        /\ UNCHANGED <<self, cachevars, racevars, namevars>>

ToTable ==
    /\ call = NoCall
    /\ call' = [NoCall EXCEPT !.op = "to_table"]
    /\ result' = to_table(self)
    /\ self' = [self EXCEPT !._brick_table = to_table(self)]
    /\ UNCHANGED <<cachevars, racevars, namevars>>

\* the caller takes the result; the next call is independent of it
Return ==
    /\ call # NoCall
    /\ call' = NoCall
    /\ result' = None
    /\ UNCHANGED <<self, cachevars, racevars, namevars>>

Next ==
    \/ BrickRadec
    \/ Brickname
    \/ Brickid
    \/ Brickq
    \/ Brickarea
    \/ Brickvertices
    \/ ToTable
    \/ Return

Spec == Init /\ [][Next]_vars

(***************************************************************************)
(* SpecCache: a sequential series of calls of the module-level brickname.   *)
(***************************************************************************)
\* the coordinates of the calls: scalars at two right ascensions, and the
\* arrays of at most one coordinate
CacheInputs(kind, bricksize) ==
    IF kind = "scalar"
    THEN {<<Scalar(ra), Scalar(dec)>> : ra \in ArrayRas, dec \in DecInputs(bricksize)}
    ELSE {in \in ArrayInputs(bricksize) : Len(in[1].v) <= 1}

InitCache ==
    /\ self = None
    /\ call = NoCall
    /\ result = None
    /\ _bricks = None
    /\ built = FALSE
    /\ RaceIdle
    /\ NamesIdle

\* brickname(ra, dec, bricksize), lines 367-371
ModuleBrickname ==
    /\ call = NoCall
    /\ \E bricksize \in BrickSizes :
        /\ \/ /\ NeedBuild(_bricks, bricksize)
              /\ _bricks' = Bricks(bricksize)
              /\ built' = TRUE
           \/ /\ ~NeedBuild(_bricks, bricksize)
              /\ _bricks' = _bricks
              /\ built' = FALSE
        /\ \E kind \in InputKinds : \E in \in CacheInputs(kind, bricksize) :
            /\ call' = [op |-> "brickname()", ra |-> in[1], dec |-> in[2],
                        bricksize |-> bricksize]
            /\ result' = brickname(_bricks', in[1], in[2])
    /\ UNCHANGED <<self, racevars, namevars>>

CacheReturn ==
    /\ call # NoCall
    /\ call' = NoCall
    /\ result' = None
    /\ built' = FALSE
    /\ UNCHANGED <<self, _bricks, racevars, namevars>>

NextCache == ModuleBrickname \/ CacheReturn

SpecCache == InitCache /\ [][NextCache]_vars

\* C7: in a sequential series of calls of brickname(ra, dec, bricksize) a new
\* Bricks is built exactly when _bricks is None (the first call) or has another
\* bricksize, a call with the cached bricksize leaves _bricks as it is, after
\* the call _bricks has the bricksize of the call, and the name returned is the
\* one an index of that bricksize computes.
C7_CachedSingleton ==
    [][(call = NoCall /\ call'.op = "brickname()") =>
          /\ built' = (IF _bricks.type = "None" THEN TRUE
                        ELSE _bricks._bricksize # call'.bricksize)
          /\ ~built' => _bricks' = _bricks
          /\ _bricks'._bricksize = call'.bricksize
          /\ result' = brickname(Bricks(call'.bricksize), call'.ra, call'.dec)
      ]_vars

\* C7: a call answered from the cached index
C7_Witness ==
    /\ call.op = "brickname()"
    /\ ~built
    /\ result.type = "scalar"

(***************************************************************************)
(* SpecRace: two concurrent callers of the module-level brickname.  A call  *)
(* is three steps: the test of line 368, the assignment of line 369, and    *)
(* the read of _bricks for the call of line 371.                            *)
(***************************************************************************)
RaceSizes == {b * TicksPerDeg : b \in {45, 60, 90}}
RaceCoords == {<<F64(10 * RaStep), -DegPole * TicksPerDeg>>, <<F64(0), 0>>}

InitRace ==
    /\ self = None
    /\ call = NoCall
    /\ result = None
    /\ _bricks = None
    /\ built = FALSE
    /\ RaceIdle
    /\ NamesIdle

RaceCall(t) ==
    /\ pc[t] = "idle"
    /\ \E bricksize \in RaceSizes, c \in RaceCoords :
           req' = [req EXCEPT ![t] = [op |-> "brickname()", ra |-> Scalar(c[1]),
                                      dec |-> Scalar(c[2]), bricksize |-> bricksize]]
    /\ pc' = [pc EXCEPT ![t] = "test"]
    /\ ret' = [ret EXCEPT ![t] = None]
    /\ UNCHANGED <<self, call, result, cachevars, owner, namevars>>

\* if _bricks is None or _bricks.bricksize != bricksize:
RaceTest(t) ==
    /\ pc[t] = "test"
    /\ pc' = [pc EXCEPT ![t] = IF NeedBuild(_bricks, req[t].bricksize)
                               THEN "assign" ELSE "use"]
    /\ UNCHANGED <<self, call, result, cachevars, req, ret, owner, namevars>>

\* _bricks = Bricks(bricksize=bricksize)
RaceAssign(t) ==
    /\ pc[t] = "assign"
    /\ _bricks' = Bricks(req[t].bricksize)
    /\ owner' = t
    /\ pc' = [pc EXCEPT ![t] = "use"]
    /\ UNCHANGED <<self, call, result, built, req, ret, namevars>>

\* the index line 371 reads out of the global _bricks
RaceIndex(t) == _bricks

\* return _bricks.brickname(ra, dec)
RaceUse(t) ==
    /\ pc[t] = "use"
    /\ ret' = [ret EXCEPT ![t] =
                  [type |-> "return",
                   name |-> brickname(RaceIndex(t), req[t].ra, req[t].dec),
                   by |-> RaceIndex(t)._bricksize,
                   builder |-> owner]]
    /\ pc' = [pc EXCEPT ![t] = "done"]
    /\ UNCHANGED <<self, call, result, cachevars, req, owner, namevars>>

RaceReturn(t) ==
    /\ pc[t] = "done"
    /\ pc' = [pc EXCEPT ![t] = "idle"]
    /\ req' = [req EXCEPT ![t] = None]
    /\ ret' = [ret EXCEPT ![t] = None]
    /\ UNCHANGED <<self, call, result, cachevars, owner, namevars>>

NextRace ==
    \E t \in Threads :
        \/ RaceCall(t)
        \/ RaceTest(t)
        \/ RaceAssign(t)
        \/ RaceUse(t)
        \/ RaceReturn(t)

SpecRace == InitRace /\ [][NextRace]_vars

\* C10: the test, the assignment and the use of _bricks are separate steps, so
\* the name a caller returns is computed by whatever index _bricks holds when
\* line 371 reads it: the index of the caller's own bricksize, or the index the
\* other caller assigned in between, built for the other caller's bricksize.
C10_NameByOwnOrOtherIndex ==
    \A t \in Threads :
        pc[t] = "done" =>
            /\ ret[t].name = brickname(Bricks(ret[t].by), req[t].ra, req[t].dec)
            /\ \/ ret[t].by = req[t].bricksize
               \/ ret[t].builder \in Threads \ {t}

\* C10: a caller returned a name computed by the index built for the other
\* caller's bricksize
C10_Witness ==
    \E t \in Threads :
        /\ pc[t] = "done"
        /\ ret[t].by # req[t].bricksize
        /\ ret[t].builder \in Threads \ {t}

(***************************************************************************)
(* SpecNames: the names __init__ gives to two bricks of one grid (lines     *)
(* 79-90), for grids down to the finest, in windows of rows next to the     *)
(* poles and the equator and of columns next to RA 0 and 360.               *)
(***************************************************************************)
DefaultBricksize == TicksPerDeg \div 4
NameSizes == {DefaultBricksize \div 4, DefaultBricksize \div 2, DefaultBricksize}
                 \cup BrickSizes
RowWin == 2
ColWin == 3
NameRows(bricksize) ==
    LET n == NRow(bricksize)
    IN  {i \in 0..(n - 1) : \/ i <= RowWin
                            \/ i >= n - 1 - RowWin
                            \/ Abs(i - (n - 1) \div 2) <= RowWin}
NameCols(bricksize, i) ==
    LET n == NcolPerRow(bricksize, i)
    IN  {j \in 0..(n - 1) : j <= ColWin \/ j >= n - 1 - ColWin}
NameBricks(bricksize) ==
    UNION {{<<i, j>> : j \in NameCols(bricksize, i)} : i \in NameRows(bricksize)}
Named(bricksize, b) ==
    [type |-> "brick", row |-> b[1], col |-> b[2],
     name |-> BrickNameOf(bricksize, b[1], b[2])]

InitNames ==
    /\ self = None
    /\ call = NoCall
    /\ result = None
    /\ _bricks = None
    /\ built = FALSE
    /\ RaceIdle
    /\ nsize \in NameSizes
    /\ nameA = None
    /\ nameB = None

NameFirst ==
    /\ nameA = None
    /\ \E b \in NameBricks(nsize) : nameA' = Named(nsize, b)
    /\ UNCHANGED <<self, call, result, cachevars, racevars, nsize, nameB>>

NameSecond ==
    /\ nameA # None
    /\ nameB = None
    /\ \E b \in NameBricks(nsize) : nameB' = Named(nsize, b)
    /\ UNCHANGED <<self, call, result, cachevars, racevars, nsize, nameA>>

NextNames == NameFirst \/ NameSecond

SpecNames == InitNames /\ [][NextNames]_vars

TwoBricksNamed ==
    /\ nameA # None /\ nameB # None
    /\ <<nameA.row, nameA.col>> # <<nameB.row, nameB.col>>

\* C5 (as claimed): for any positive bricksize, no two distinct (row, col) of
\* the grid have the same name RRRR[p|m]DDD.
C5_NamesUniqueAnySize == TwoBricksNamed => nameA.name # nameB.name

\* C5 (amended): for any bricksize of at least 0.1 degree, no two distinct
\* (row, col) of the grid have the same name RRRR[p|m]DDD.
C5_NamesUnique ==
    (TwoBricksNamed /\ 10 * nsize >= TicksPerDeg) => nameA.name # nameB.name

\* C5: neighbouring bricks of the default grid (0.25 degree) with distinct names
C5_Witness ==
    /\ TwoBricksNamed
    /\ nsize = DefaultBricksize
    /\ nameA.row = nameB.row /\ nameA.col + 1 = nameB.col
    /\ nameA.name # nameB.name

(***************************************************************************)
(* Properties of the lookups, checked under Spec.                           *)
(***************************************************************************)
LookupOps == {"brickname", "brickid", "brickq", "brickarea", "brickvertices",
              "brick_radec"}
ScalarLookup == call.op \in LookupOps /\ IsScalar(call.ra)
ArrayLookup == call.op \in LookupOps /\ call.ra.type = "array"
DecInRange(dec) == -DegPole * TicksPerDeg <= dec /\ dec <= DegPole * TicksPerDeg

\* -1, 0, 1 as |x| < |y|, |x| = |y|, |x| > |y|
F64CmpAbs(x, y) ==
    IF x.m = <<>> \/ y.m = <<>>
    THEN (IF x.m # <<>> THEN 1 ELSE IF y.m # <<>> THEN -1 ELSE 0)
    ELSE IF x.e < y.e THEN -1
    ELSE IF x.e > y.e THEN 1
    ELSE BigCmp(x.m, y.m)

\* x <= y
F64Le(x, y) ==
    IF x.s = 1 /\ y.s = 0 THEN TRUE
    ELSE IF x.s = 0 /\ y.s = 1 THEN x.m = <<>> /\ y.m = <<>>
    ELSE IF x.s = 0 THEN F64CmpAbs(x, y) <= 0
    ELSE F64CmpAbs(x, y) >= 0

\* floor(ara/360 * ncol) in exact arithmetic, for a double 0 <= ara <= 360
FloorCol(ara, ncol) ==
    BigToInt(BigShift(BigDivSmall(BigMulSmall(ara.m, ncol), DegFull).q, -ara.e))

\* what _row_col makes of the current call's coordinates
CallRowCol ==
    LET a == _array_radec(call.ra, call.dec) IN _row_col(self, a[1], a[2])
CallAra == _array_radec(call.ra, call.dec)[1]

\* the bricks (row, col) of the grid, and a brick's place in row-major order
AllBricks(grid) ==
    UNION {{<<r, c>> : c \in 0..(grid._ncol_per_row[r] - 1)} :
              r \in DOMAIN grid._ncol_per_row}
Rank(grid, row, col) ==
    Cardinality({b \in AllBricks(grid) :
                    b[1] < row \/ (b[1] = row /\ b[2] <= col)})

\* C1 (as claimed): for every ra and every dec in [-90, 90], _row_col returns a
\* (row, col) inside the grid, row = floor((dec + 90 + bricksize/2)/bricksize),
\* col = floor(ra/360 * col_count[row]), and the vertices brickvertices returns
\* enclose the point: ra1 <= ra mod 360 <= ra2 and dec1 <= dec <= dec2.
C1_Coverage ==
    (call.op = "brickvertices" /\ IsScalar(call.ra) /\ DecInRange(call.dec.v)) =>
        LET rc  == CallRowCol
            ara == CallAra[1]
            dec == call.dec.v
        IN  /\ rc.type = "tuple"
            /\ LET row == rc.v[1][1]
                   col == rc.v[2][1]
               IN  /\ row \in 0..(RowCount(self) - 1)
                   /\ col \in 0..(self._ncol_per_row[row] - 1)
                   /\ row = (2 * (dec + DegPole * TicksPerDeg) + self._bricksize)
                                \div (2 * self._bricksize)
                   /\ col = FloorCol(ara, self._ncol_per_row[row])
            /\ result.type = "scalar"
            /\ F64Le(result.v[1][1], ara) /\ F64Le(ara, result.v[2][1])
            /\ result.v[1][2] <= dec /\ dec <= result.v[3][2]

\* C2 (as claimed): at dec = 90 and at dec = -90, for every ra, the containing
\* row has one column, brickq returns 1 and brickvertices returns the RA edges
\* 0 and 360.  Stated for the grids in which the pole lies in a row.
C2_Poles ==
    (/\ ScalarLookup
     /\ call.dec.v \in {-DegPole * TicksPerDeg, DegPole * TicksPerDeg}
     /\ CallRowCol.type = "tuple") =>
        /\ self._ncol_per_row[CallRowCol.v[1][1]] = 1
        /\ call.op = "brickq" => (result.type = "scalar" /\ result.v = 1)
        /\ call.op = "brickvertices" =>
              /\ result.type = "scalar"
              /\ result.v[1][1] = F64(0)
              /\ result.v[2][1] = F64(DegFull)

\* the BRICKQ values a call or the table shows all lie in the set q
BrickqWithin(q) ==
    /\ (call.op = "brickq" /\ result.type = "scalar") => result.v \in q
    /\ (call.op = "brickq" /\ result.type = "array") =>
           \A k \in DOMAIN result.v : result.v[k] \in q
    /\ call.op = "to_table" =>
           \A k \in DOMAIN result.rows : result.rows[k].BRICKQ \in q

\* C3 (as claimed): brickq(ra, dec) is in {1, 2, 3, 4} for every ra and every
\* dec in [-90, 90], and so is every BRICKQ of the table.
C3_RangeOneToFour ==
    (call.op = "to_table"
        \/ (call.op = "brickq" /\ \A k \in DOMAIN AtLeast1d(call.dec) :
                                     DecInRange(AtLeast1d(call.dec)[k])))
    => BrickqWithin(1..4)

\* C3 (amended): every value brickq returns, and every BRICKQ of the table, is
\* in {0, 1, 2, 3}.
C3_RangeZeroToThree == BrickqWithin(0..3)

\* C3: brickq returned 0 for a point of the sphere
C3_Witness ==
    /\ call.op = "brickq" /\ IsScalar(call.ra) /\ DecInRange(call.dec.v)
    /\ result.type = "scalar" /\ result.v = 0

\* C4 (as claimed): brickid at a coordinate of the sphere (dec in [-90, 90])
\* whose row lies in the grid is the ID of a brick of the grid, the brick
\* (row, col) the coordinate is located in: its place in row-major order,
\* (columns of the rows before row) + col + 1, among 1..N; the table has one row
\* per brick, its BRICKID column is 1..N in order, and brickid at the centre of
\* the brick in table row k is k.
C4_IdBijection ==
    /\ (call.op = "brickid" /\ CallRowCol.type = "tuple") =>
           LET irow == CallRowCol.v[1]
               icol == CallRowCol.v[2]
           IN  \A k \in DOMAIN irow :
                   (/\ DecInRange(IF IsScalar(call.ra) THEN call.dec.v ELSE call.dec.v[k])
                    /\ irow[k] \in 0..(RowCount(self) - 1)) =>
                       /\ result.type = IF IsScalar(call.ra) THEN "scalar" ELSE "array"
                       /\ <<irow[k], icol[k]>> \in AllBricks(self)
                       /\ Rank(self, irow[k], icol[k])
                            = IF IsScalar(call.ra) THEN result.v ELSE result.v[k]
    /\ call.op = "to_table" =>
           /\ Len(result.rows) = Cardinality(AllBricks(self))
           /\ \A k \in DOMAIN result.rows :
                  LET t == result.rows[k]
                  IN  /\ t.BRICKID = k
                      /\ Rank(self, t.BRICKROW, t.BRICKCOL) = k
                      /\ brickid(self, Scalar(t.RA), Scalar(t.DEC)) = Scalar(k)

\* C4, the part the code keeps: the same with the coordinates restricted to
\* those whose column index lies in the row (icol < col_count[row])
C4_IdWithinRow ==
    /\ (call.op = "brickid" /\ CallRowCol.type = "tuple") =>
           LET irow == CallRowCol.v[1]
               icol == CallRowCol.v[2]
           IN  \A k \in DOMAIN irow :
                   (/\ irow[k] \in 0..(RowCount(self) - 1)
                    /\ icol[k] \in 0..(self._ncol_per_row[irow[k]] - 1)) =>
                       /\ result.type = IF IsScalar(call.ra) THEN "scalar" ELSE "array"
                       /\ Rank(self, irow[k], icol[k])
                            = IF IsScalar(call.ra) THEN result.v ELSE result.v[k]
    /\ call.op = "to_table" =>
           /\ Len(result.rows) = Cardinality(AllBricks(self))
           /\ \A k \in DOMAIN result.rows :
                  LET t == result.rows[k]
                  IN  /\ t.BRICKID = k
                      /\ Rank(self, t.BRICKROW, t.BRICKCOL) = k

\* C4: brickid returned an ID above the number of bricks of the grid
C4_IdAboveCount ==
    /\ call.op = "brickid" /\ result.type = "scalar" /\ DecInRange(call.dec.v)
    /\ result.v > Cardinality(AllBricks(self))

\* the value a lookup of the current call's op returns for one coordinate
ElementOf(grid, op, ra, dec) ==
    LET a  == _array_radec(Scalar(ra), Scalar(dec))
        rc == _row_col(grid, a[1], a[2])
        row == PyIndex(rc.v[1][1], RowCount(grid))
        col == rc.v[2][1]
    IN  CASE op = "brickname" -> brickname(grid, Scalar(ra), Scalar(dec)).v
          [] op = "brickid" -> brickid(grid, Scalar(ra), Scalar(dec)).v
          [] op = "brickq" -> brickq(grid, Scalar(ra), Scalar(dec)).v
          [] op = "brickarea" -> brickarea(grid, Scalar(ra), Scalar(dec)).v
          [] op = "brickvertices" -> VerticesOf(grid, rc.v[1][1], col)
          [] op = "brick_radec" -> <<grid._center_ra[row][col], grid._center_dec[row]>>

\* C6 (as claimed): each lookup returns a scalar-shaped result for scalar ra and
\* dec (brick_radec: a pair of scalars) and, for arrays of length n, a result of
\* length n whose element i is the result for (ra[i], dec[i]).  Stated for dec
\* in [-90, 90] and the coordinates whose rows lie in the grid.
C6_ShapePreserved ==
    (/\ call.op \in LookupOps
     /\ \A k \in DOMAIN AtLeast1d(call.dec) : DecInRange(AtLeast1d(call.dec)[k])
     /\ CallRowCol.type = "tuple") =>
        IF IsScalar(call.ra)
        THEN IF call.op = "brick_radec"
             THEN /\ result.type = "tuple"
                  /\ result.v[1].type = "scalar" /\ result.v[2].type = "scalar"
             ELSE result.type = "scalar"
        ELSE LET n == Len(call.ra.v)
                 el(i) == ElementOf(self, call.op, call.ra.v[i], call.dec.v[i])
             IN  IF call.op = "brick_radec"
                 THEN /\ result.type = "tuple"
                      /\ result.v[1].type = "array" /\ Len(result.v[1].v) = n
                      /\ result.v[2].type = "array" /\ Len(result.v[2].v) = n
                      /\ \A i \in 1..n : <<result.v[1].v[i], result.v[2].v[i]>> = el(i)
                 ELSE /\ result.type = "array"
                      /\ Len(result.v) = n
                      /\ \A i \in 1..n : result.v[i] = el(i)

\* a column of the table, as the array one passes to a lookup
Column(rows, f(_)) == Array([k \in DOMAIN rows |-> f(rows[k])])

\* the lookups of every table row's centre, other than a scalar brick_radec,
\* return the row's brick: the centres looked up one by one and as arrays
TableLookupsAgree(grid, rows) ==
    LET RA == Column(rows, LAMBDA t : t.RA)
        DEC == Column(rows, LAMBDA t : t.DEC)
        a == _array_radec(RA, DEC)
    IN  /\ _row_col(grid, a[1], a[2])
             = Tuple2(Column(rows, LAMBDA t : t.BRICKROW).v,
                      Column(rows, LAMBDA t : t.BRICKCOL).v)
        /\ brickname(grid, RA, DEC) = Column(rows, LAMBDA t : t.BRICKNAME)
        /\ brickq(grid, RA, DEC) = Column(rows, LAMBDA t : t.BRICKQ)
        /\ brick_radec(grid, RA, DEC) = {Tuple2(RA, DEC)}
        /\ \A k \in DOMAIN rows :
               LET t == rows[k]
                   ra == Scalar(t.RA)
                   dec == Scalar(t.DEC)
                   s == _array_radec(ra, dec)
               IN  /\ _row_col(grid, s[1], s[2])
                        = Tuple2(<<t.BRICKROW>>, <<t.BRICKCOL>>)
                   /\ brickname(grid, ra, dec) = Scalar(t.BRICKNAME)
                   /\ brickq(grid, ra, dec) = Scalar(t.BRICKQ)
                   /\ t.BRICKQ = IF t.BRICKROW = 0 THEN 1
                                 ELSE (t.BRICKCOL % 2) + (t.BRICKROW % 2) * 2

\* C8 (as claimed): looking up the centre (RA, DEC) of each row of the table
\* returns the same brick: _row_col gives (BRICKROW, BRICKCOL), brickname
\* BRICKNAME, brickq BRICKQ, which is 1 in row 0 and (col mod 2) + (row mod 2)*2
\* in every other row, the opposite pole included, and brick_radec gives
\* (RA, DEC) back.
C8_TableLookup ==
    call.op = "to_table" =>
        /\ TableLookupsAgree(self, result.rows)
        /\ \A k \in DOMAIN result.rows :
               LET t == result.rows[k]
               IN  brick_radec(self, Scalar(t.RA), Scalar(t.DEC))
                       = {Tuple2(Scalar(t.RA), Scalar(t.DEC))}

\* C8, the part that holds: every lookup of the centres other than a scalar
\* brick_radec returns the row's brick, and a scalar brick_radec that returns
\* at all returns the centre as one-element arrays.
C8_TableLookupButScalarRadec ==
    call.op = "to_table" =>
        /\ TableLookupsAgree(self, result.rows)
        /\ \A k \in DOMAIN result.rows :
               LET t == result.rows[k]
               IN  brick_radec(self, Scalar(t.RA), Scalar(t.DEC))
                       = {Raise("TypeError"), Tuple2(Array(<<t.RA>>), Array(<<t.DEC>>))}

\* dec + 90 + bricksize/2 of the current scalar call, whose quotient by the
\* bricksize is the row index
CallDecOffset == call.dec.v + DegPole * TicksPerDeg + self._bricksize \div 2

IsIndexError(r) == r.type = "raise" /\ r.error = "IndexError"

\* C9 (as claimed): for every dec outside [-90, 90] the row index is outside
\* 0..row_count-1 and every lookup ends in an out-of-bounds error.  Stated for
\* the lookups other than brick_radec.
C9_AlwaysOutOfBounds ==
    (ScalarLookup /\ call.op # "brick_radec" /\ ~DecInRange(call.dec.v)) =>
        /\ TruncDiv(CallDecOffset, self._bricksize) \notin 0..(RowCount(self) - 1)
        /\ IsIndexError(result)

\* C9 (amended): the row index of dec is (dec + 90 + bricksize/2) / bricksize
\* truncated toward zero, and every lookup ends in IndexError whenever that
\* index is >= row_count or < -row_count.  Any other index is accepted, also
\* for a dec outside [-90, 90]: _row_col returns it (0, row_count-1, or a
\* negative index counted from the end), a lookup then ends in IndexError only
\* if the column index is not below col_count of that row, and otherwise
\* brickname returns the name stored for (index, column).
C9_OutOfBoundsBeyond ==
    ScalarLookup =>
        LET off == CallDecOffset
            n == RowCount(self)
            beyond == off >= n * self._bricksize \/ off <= -(n + 1) * self._bricksize
            index == IF off >= 0 THEN off \div self._bricksize
                     ELSE -((-off) \div self._bricksize)
        IN  /\ beyond => IsIndexError(result)
            /\ ~beyond =>
                   /\ CallRowCol.type = "tuple"
                   /\ CallRowCol.v[1] = <<index>>
                   /\ IsIndexError(result) =>
                          ~ColsInRow(self, CallRowCol.v[1], CallRowCol.v[2])
                   /\ (/\ call.op = "brickname"
                       /\ ColsInRow(self, CallRowCol.v[1], CallRowCol.v[2])) =>
                          result = Scalar(self._brickname[PyIndex(index, n)]
                                                         [CallRowCol.v[2][1]])

\* C9: brickname returned a brick for a dec below -90 whose row index is negative
C9_Witness ==
    /\ call.op = "brickname" /\ IsScalar(call.ra)
    /\ CallDecOffset <= -self._bricksize
    /\ result.type = "scalar"
=============================================================================
